---- MODULE Spec2Model ----
(***************************************************************************)
(* WebWaka core registry: the async ModuleRegistry (src/src/registry.ts)   *)
(* with its InMemoryStorage, CapabilityResolver and TenantControl, and the *)
(* synchronous ModuleRegistry of src/dist/registry.js, whose module Map,   *)
(* capability index and tenant Map are the variables syncModules,          *)
(* capabilityIndex and syncTenantStates.  The variable calls holds the     *)
(* async enableModule / disableModule calls that are suspended at an       *)
(* await, with the tenant-state table as it was when they were issued.     *)
(*                                                                         *)
(* Strings are modelled as sequences of tokens so that the string          *)
(* operations of the code (template concatenation, startsWith, regular     *)
(* expressions over separators) are computed and not assumed:              *)
(*   - a moduleId is the sequence of its '-'-separated segments,           *)
(*     "webwaka-core-a" is <<"webwaka","core","a">>;                       *)
(*   - a capability id is the sequence of its ':'-separated segments,      *)
(*     "ns:c1" is <<"ns","c1">>;                                           *)
(*   - a tenantId is a sequence of characters, "a:b" is <<"a",":","b">>;   *)
(*   - a tenant-state key is tenantId, ":", and the moduleId's segments.   *)
(* Timestamps (registeredAt, updatedAt) and the free-form manifest fields  *)
(* (version, metadata, capability name/description) are not part of the    *)
(* state: no decision of the code reads them.  The module store keeps the  *)
(* insertion order of the JavaScript Map; the tenant-state Map is a        *)
(* function and the lists read from it are sets.                           *)
(***************************************************************************)
EXTENDS Naturals, Sequences, FiniteSets, TLC

VARIABLES modules, tenantStates, capabilityMap, moduleCapabilities, last,
          syncModules, capabilityIndex, syncTenantStates, calls

vars == <<modules, tenantStates, capabilityMap, moduleCapabilities, last,
          syncModules, capabilityIndex, syncTenantStates, calls>>

\* The state of the synchronous ModuleRegistry.
syncVars == <<syncModules, capabilityIndex, syncTenantStates>>

\* The state of the async ModuleRegistry: storage and capability resolver.
asyncVars == <<modules, tenantStates, capabilityMap, moduleCapabilities>>

(***************************************************************************)
(* Bounds and input sets                                                   *)
(***************************************************************************)
MaxDeps == 1

MaxCaps == 2

MaxCandidateDeps == 2

MaxSyncDeps == 2
\* dependencies of a manifest offered to the registry of the cycle check
MaxCycleDeps == 2

ModuleClasses == {"core", "suite", "industry", "ext", "infra"}

ModuleIds == { <<"webwaka", "core", "a">>, <<"webwaka", "ext", "b">> }

Classes == {"core", "ext"}

CapIds == { <<"ns", "c1">>, <<"ns", "c2">> }

TenantIds == { <<"a">>, <<"a", ":", "b">> }

SeqsUpTo(S, n) == UNION { [1..k -> S] : k \in 0..n }

Capability == [id : CapIds]

ModuleDependency == [moduleId : ModuleIds, optional : BOOLEAN]

\* Manifests offered to registerModule.  The dependency lists and the capability
\* lists are varied in two separate input sets: no step of the code relates a
\* module's capabilities to its dependencies.
DepManifests ==
  [ moduleId     : ModuleIds,
    class        : Classes,
    capabilities : { << >> },
    dependencies : SeqsUpTo(ModuleDependency, MaxDeps) ]

CapManifests ==
  [ moduleId     : ModuleIds,
    class        : Classes,
    capabilities : SeqsUpTo(Capability, MaxCaps),
    dependencies : { << >> } ]

\* Candidates offered to the validator: next to the well-formed values, a
\* moduleId outside the pattern ("invalid-id"), a class outside the enumeration
\* and a capability id without separator ("c1").
CandidateModuleIds == ModuleIds \cup { <<"invalid", "id">> }

Candidates ==
  [ moduleId     : CandidateModuleIds,
    class        : Classes \cup {"bogus"},
    capabilities : SeqsUpTo([id : CapIds \cup { <<"c1">> }], MaxCaps),
    dependencies : SeqsUpTo([moduleId : CandidateModuleIds, optional : BOOLEAN],
                            MaxCandidateDeps) ]

(***************************************************************************)
(* String helpers                                                          *)
(***************************************************************************)
startsWith(s, prefix) ==
  /\ Len(prefix) <= Len(s)
  /\ \A i \in 1..Len(prefix) : s[i] = prefix[i]

Range(s) == { s[i] : i \in DOMAIN s }

(***************************************************************************)
(* ManifestValidator                                                       *)
(***************************************************************************)
isValidModuleId(moduleId) ==
  /\ Len(moduleId) >= 3
  /\ moduleId[1] = "webwaka"
  /\ moduleId[2] \in ModuleClasses
  /\ ~(Len(moduleId) = 3 /\ moduleId[3] = "")

isValidCapabilityId(capabilityId) ==
  /\ Len(capabilityId) = 2
  /\ capabilityId[1] # ""
  /\ capabilityId[2] # ""

\* The JSON schema (schemas/module_manifest.schema.json) as the changelog and
\* the README describe it: id patterns and the closed class set.  The validator
\* is compiled with allErrors, so every violation is listed: one error for the
\* moduleId, one for the class, one per malformed capability id and one per
\* malformed dependency target.
SchemaErrors(manifest) ==
  LET idErr == IF isValidModuleId(manifest.moduleId) THEN << >>
               ELSE << [code |-> "SCHEMA_PATTERN", path |-> "/moduleId"] >>
      enumErr == IF manifest.class \in ModuleClasses THEN << >>
                 ELSE << [code |-> "SCHEMA_ENUM", path |-> "/class"] >>
      badCaps == SelectSeq(manifest.capabilities,
                           LAMBDA cap : ~isValidCapabilityId(cap.id))
      badDeps == SelectSeq(manifest.dependencies,
                           LAMBDA dep : ~isValidModuleId(dep.moduleId))
  IN  idErr \o enumErr
        \o [k \in 1..Len(badCaps) |->
              [code |-> "SCHEMA_PATTERN", path |-> "/capabilities"]]
        \o [k \in 1..Len(badDeps) |->
              [code |-> "SCHEMA_PATTERN", path |-> "/dependencies"]]

\* One error per index of `keys` whose key already occurred at a smaller index
\* (the Set-based duplicate loops).
RepeatErrors(keys, code, path) ==
  LET idx == SelectSeq([i \in 1..Len(keys) |-> i],
                       LAMBDA i : \E j \in 1..(i - 1) : keys[j] = keys[i])
  IN  [k \in 1..Len(idx) |-> [code |-> code, path |-> path]]

\* Mutant: the rule that the moduleId carries the declared class is missing.
validateBusinessRules_NoClassRule(manifest) ==
  LET capErr == RepeatErrors([i \in DOMAIN manifest.capabilities |->
                                manifest.capabilities[i].id],
                             "DUPLICATE_CAPABILITY", "/capabilities")
      selfDeps == SelectSeq(manifest.dependencies,
                            LAMBDA d : d.moduleId = manifest.moduleId)
      selfErr == [k \in 1..Len(selfDeps) |->
                    [code |-> "SELF_DEPENDENCY", path |-> "/dependencies"]]
      depErr == RepeatErrors([i \in DOMAIN manifest.dependencies |->
                                manifest.dependencies[i].moduleId],
                             "DUPLICATE_DEPENDENCY", "/dependencies")
  IN  capErr \o selfErr \o depErr

\* Mutant: the rule against a dependency on the module itself is missing.
validateBusinessRules_NoSelfRule(manifest) ==
  LET expectedPrefix == <<"webwaka", manifest.class>>
      classErr == IF startsWith(manifest.moduleId, expectedPrefix)
                     /\ Len(manifest.moduleId) > Len(expectedPrefix)
                  THEN << >>
                  ELSE << [code |-> "CLASS_PREFIX_MISMATCH", path |-> "/moduleId"] >>
      capErr == RepeatErrors([i \in DOMAIN manifest.capabilities |->
                                manifest.capabilities[i].id],
                             "DUPLICATE_CAPABILITY", "/capabilities")
      depErr == RepeatErrors([i \in DOMAIN manifest.dependencies |->
                                manifest.dependencies[i].moduleId],
                             "DUPLICATE_DEPENDENCY", "/dependencies")
  IN  classErr \o capErr \o depErr

\* Mutant: the business rules stop at the first error.
validateBusinessRules_FirstOnly(manifest) ==
  LET capKeys == [i \in DOMAIN manifest.capabilities |-> manifest.capabilities[i].id]
      depKeys == [i \in DOMAIN manifest.dependencies |->
                    manifest.dependencies[i].moduleId]
  IN  IF ~(startsWith(manifest.moduleId, <<"webwaka", manifest.class>>)
           /\ Len(manifest.moduleId) > 2)
      THEN << [code |-> "CLASS_PREFIX_MISMATCH", path |-> "/moduleId"] >>
      ELSE IF Len(RepeatErrors(capKeys, "DUPLICATE_CAPABILITY", "/capabilities")) > 0
        THEN << [code |-> "DUPLICATE_CAPABILITY", path |-> "/capabilities"] >>
      ELSE IF manifest.moduleId \in Range(depKeys)
        THEN << [code |-> "SELF_DEPENDENCY", path |-> "/dependencies"] >>
      ELSE IF Len(RepeatErrors(depKeys, "DUPLICATE_DEPENDENCY", "/dependencies")) > 0
        THEN << [code |-> "DUPLICATE_DEPENDENCY", path |-> "/dependencies"] >>
      ELSE << >>

validateBusinessRules(manifest) ==
  LET expectedPrefix == <<"webwaka", manifest.class>>
      classErr == IF startsWith(manifest.moduleId, expectedPrefix)
                     /\ Len(manifest.moduleId) > Len(expectedPrefix)
                  THEN << >>
                  ELSE << [code |-> "CLASS_PREFIX_MISMATCH", path |-> "/moduleId"] >>
      capErr == RepeatErrors([i \in DOMAIN manifest.capabilities |->
                                manifest.capabilities[i].id],
                             "DUPLICATE_CAPABILITY", "/capabilities")
      selfDeps == SelectSeq(manifest.dependencies,
                            LAMBDA d : d.moduleId = manifest.moduleId)
      selfErr == [k \in 1..Len(selfDeps) |->
                    [code |-> "SELF_DEPENDENCY", path |-> "/dependencies"]]
      depErr == RepeatErrors([i \in DOMAIN manifest.dependencies |->
                                manifest.dependencies[i].moduleId],
                             "DUPLICATE_DEPENDENCY", "/dependencies")
  IN  classErr \o capErr \o selfErr \o depErr

\* Mutant: the business rules are not applied.
validate_SchemaOnly(manifest) ==
  [valid |-> Len(SchemaErrors(manifest)) = 0, errors |-> SchemaErrors(manifest)]

validate(manifest) ==
  LET schemaErrors == SchemaErrors(manifest)
      errors == IF Len(schemaErrors) > 0 THEN schemaErrors
                ELSE validateBusinessRules(manifest)
  IN  [valid |-> Len(errors) = 0, errors |-> errors]

(***************************************************************************)
(* InMemoryStorage                                                         *)
(***************************************************************************)
registeredIds == { modules[i].moduleId : i \in DOMAIN modules }

hasModule(moduleId) == moduleId \in registeredIds

\* Only used where hasModule(moduleId) holds (the code's null check).
getModule(moduleId) ==
  modules[CHOOSE i \in DOMAIN modules : modules[i].moduleId = moduleId]

saveModule(module) ==
  IF hasModule(module.moduleId)
  THEN [i \in DOMAIN modules |->
          IF modules[i].moduleId = module.moduleId THEN module ELSE modules[i]]
  ELSE Append(modules, module)

\* Mutant: the delete empties the store.
deleteModule_All(moduleId) == << >>

deleteModule(moduleId) ==
  SelectSeq(modules, LAMBDA m : m.moduleId # moduleId)

\* Mutant: the key leaves the tenant out.
getTenantStateKey_NoTenant(tenantId, moduleId) == <<":">> \o moduleId

getTenantStateKey(tenantId, moduleId) == tenantId \o <<":">> \o moduleId

hasTenantState(tenantId, moduleId) ==
  getTenantStateKey(tenantId, moduleId) \in DOMAIN tenantStates

\* state?.enabled : false when there is no record
stateEnabled(tenantId, moduleId) ==
  /\ hasTenantState(tenantId, moduleId)
  /\ tenantStates[getTenantStateKey(tenantId, moduleId)].enabled

\* Mutant: the write replaces the table by the one record.
saveTenantState_Reset(state) ==
  LET key == getTenantStateKey(state.tenantId, state.moduleId)
  IN  [k \in {key} |-> state]

\* Mutant: an existing record is not overwritten.
saveTenantState_KeepsOld(state) ==
  LET key == getTenantStateKey(state.tenantId, state.moduleId)
  IN  [k \in DOMAIN tenantStates \cup {key} |->
         IF k \in DOMAIN tenantStates THEN tenantStates[k] ELSE state]

saveTenantState(state) ==
  LET key == getTenantStateKey(state.tenantId, state.moduleId)
  IN  [k \in DOMAIN tenantStates \cup {key} |->
         IF k = key THEN state ELSE tenantStates[k]]

getTenantStates(tenantId) ==
  { tenantStates[key] : key \in
      { k \in DOMAIN tenantStates : startsWith(k, tenantId \o <<":">>) } }

(***************************************************************************)
(* CapabilityResolver                                                      *)
(***************************************************************************)
capIds(capabilities) == { capabilities[i].id : i \in DOMAIN capabilities }

\* Mutant: the conflict scan finds nothing.
checkForDuplicates_None(capabilities) == << >>

\* checkForDuplicates(capabilities) as registerModule calls it: excludeModuleId
\* is undefined, so every bound id is a conflict.
checkForDuplicates(capabilities) ==
  LET sel == SelectSeq(capabilities, LAMBDA cap : cap.id \in DOMAIN capabilityMap)
  IN  [i \in 1..Len(sel) |-> sel[i].id]

\* First pass of registerCapabilities: the DUPLICATE throw.
registerCapabilitiesThrows(module) ==
  \E i \in DOMAIN module.capabilities :
    LET id == module.capabilities[i].id
    IN  /\ id \in DOMAIN capabilityMap
        /\ capabilityMap[id].module.moduleId # module.moduleId

\* Mutant: only the first capability of the module is bound.
registerCapabilitiesMap_FirstOnly(module) ==
  IF module.capabilities = << >> THEN capabilityMap
  ELSE [c \in DOMAIN capabilityMap \cup {module.capabilities[1].id} |->
          IF c = module.capabilities[1].id
          THEN [capability |-> module.capabilities[1], module |-> module]
          ELSE capabilityMap[c]]

\* Second pass: every capability of the module is bound to it (a repeated id
\* keeps its last descriptor).
registerCapabilitiesMap(module) ==
  LET ids == capIds(module.capabilities)
      lastOf(id) == module.capabilities[
                      CHOOSE i \in DOMAIN module.capabilities :
                        /\ module.capabilities[i].id = id
                        /\ \A j \in DOMAIN module.capabilities :
                             module.capabilities[j].id = id => j <= i ]
  IN  [c \in DOMAIN capabilityMap \cup ids |->
         IF c \in ids THEN [capability |-> lastOf(c), module |-> module]
         ELSE capabilityMap[c]]

registerCapabilitiesTrack(module) ==
  [m \in DOMAIN moduleCapabilities \cup {module.moduleId} |->
     IF m = module.moduleId THEN capIds(module.capabilities)
     ELSE moduleCapabilities[m]]

\* Mutant: unregistration leaves the bindings in place.
unregisterCapabilitiesMap_KeepBindings(moduleId) == capabilityMap

unregisterCapabilitiesMap(moduleId) ==
  IF moduleId \in DOMAIN moduleCapabilities
  THEN [c \in DOMAIN capabilityMap \ moduleCapabilities[moduleId] |-> capabilityMap[c]]
  ELSE capabilityMap

unregisterCapabilitiesTrack(moduleId) ==
  [m \in DOMAIN moduleCapabilities \ {moduleId} |-> moduleCapabilities[m]]

hasCapability(capabilityId) == capabilityId \in DOMAIN capabilityMap

\* Mutant: the lookup comes before the format check.
resolve_LookupFirst(capabilityId) ==
  IF capabilityId \notin DOMAIN capabilityMap THEN [code |-> "NOT_FOUND"]
  ELSE IF ~isValidCapabilityId(capabilityId) THEN [code |-> "INVALID_FORMAT"]
  ELSE [code |-> "OK",
        capability |-> capabilityMap[capabilityId].capability,
        module |-> capabilityMap[capabilityId].module]

\* resolve(capabilityId): the error code it throws, or "OK" with the descriptor
\* and the module of the binding.  The pattern it tests is the one of
\* isValidCapabilityId.
resolve(capabilityId) ==
  IF ~isValidCapabilityId(capabilityId) THEN [code |-> "INVALID_FORMAT"]
  ELSE IF capabilityId \notin DOMAIN capabilityMap THEN [code |-> "NOT_FOUND"]
  ELSE [code |-> "OK",
        capability |-> capabilityMap[capabilityId].capability,
        module |-> capabilityMap[capabilityId].module]

(***************************************************************************)
(* ModuleRegistry.checkCircularDependencies                                *)
(***************************************************************************)
RECURSIVE checkCircularDependencies(_, _, _)
RECURSIVE checkCircularDeps(_, _, _, _)
RECURSIVE checkCircularDeps_FirstOnly(_, _, _, _)

\* The for-loop over manifest.dependencies from index i on, with the copy of
\* `visited` that each recursive call receives.
\* Mutant: only the first dependency of each module is walked.
checkCircularDeps_FirstOnly(deps, i, visited, currentPath) ==
  IF i > 1 \/ i > Len(deps) THEN [hasCircular |-> FALSE, path |-> << >>]
  ELSE IF hasModule(deps[i].moduleId)
    THEN checkCircularDependencies(getModule(deps[i].moduleId), visited, currentPath)
    ELSE [hasCircular |-> FALSE, path |-> << >>]

checkCircularDeps(deps, i, visited, currentPath) ==
  IF i > Len(deps) THEN [hasCircular |-> FALSE, path |-> << >>]
  ELSE IF hasModule(deps[i].moduleId)
    THEN LET result == checkCircularDependencies(getModule(deps[i].moduleId),
                                                 visited, currentPath)
         IN  IF result.hasCircular THEN result
             ELSE checkCircularDeps(deps, i + 1, visited, currentPath)
    ELSE checkCircularDeps(deps, i + 1, visited, currentPath)

checkCircularDependencies(manifest, visited, path) ==
  LET currentPath == Append(path, manifest.moduleId)
  IN  IF manifest.moduleId \in visited
      THEN [hasCircular |-> TRUE, path |-> currentPath]
      ELSE checkCircularDeps(manifest.dependencies, 1,
                             visited \cup {manifest.moduleId}, currentPath)

(***************************************************************************)
(* ModuleRegistry.registerModule / unregisterModule                        *)
(***************************************************************************)
\* Mutant: the capability conflicts are checked before the stored moduleId.
registerModuleCode_ConflictFirst(manifest) ==
  IF ~validate(manifest).valid THEN "VALIDATION_FAILED"
  ELSE IF Len(checkForDuplicates(manifest.capabilities)) > 0 THEN "CAPABILITY_CONFLICT"
  ELSE IF hasModule(manifest.moduleId) THEN "ALREADY_REGISTERED"
  ELSE IF \E i \in DOMAIN manifest.dependencies :
            ~isValidModuleId(manifest.dependencies[i].moduleId)
    THEN "VALIDATION_FAILED"
  ELSE IF checkCircularDependencies(manifest, {}, << >>).hasCircular
    THEN "CIRCULAR_DEPENDENCY"
  ELSE IF registerCapabilitiesThrows(manifest) THEN "DUPLICATE"
  ELSE "OK"

\* Mutant: step 2 (the already-registered check) is missing.
registerModuleCode_NoExistingCheck(manifest) ==
  IF ~validate(manifest).valid THEN "VALIDATION_FAILED"
  ELSE IF Len(checkForDuplicates(manifest.capabilities)) > 0 THEN "CAPABILITY_CONFLICT"
  ELSE IF checkCircularDependencies(manifest, {}, << >>).hasCircular
    THEN "CIRCULAR_DEPENDENCY"
  ELSE IF registerCapabilitiesThrows(manifest) THEN "DUPLICATE"
  ELSE "OK"

\* The error code registerModule throws for a manifest, "OK" when it resolves.
registerModuleCode(manifest) ==
  IF ~validate(manifest).valid THEN "VALIDATION_FAILED"
  ELSE IF hasModule(manifest.moduleId) THEN "ALREADY_REGISTERED"
  ELSE IF Len(checkForDuplicates(manifest.capabilities)) > 0 THEN "CAPABILITY_CONFLICT"
  ELSE IF \E i \in DOMAIN manifest.dependencies :
            ~isValidModuleId(manifest.dependencies[i].moduleId)
    THEN "VALIDATION_FAILED"
  ELSE IF checkCircularDependencies(manifest, {}, << >>).hasCircular
    THEN "CIRCULAR_DEPENDENCY"
  ELSE IF registerCapabilitiesThrows(manifest) THEN "DUPLICATE"
  ELSE "OK"

RegisterModule(manifest) ==
  LET code == registerModuleCode(manifest)
  IN  /\ last' = [op |-> "registerModule", code |-> code, related |-> << >>]
      /\ IF code = "OK"
         THEN /\ capabilityMap' = registerCapabilitiesMap(manifest)
              /\ moduleCapabilities' = registerCapabilitiesTrack(manifest)
              /\ modules' = saveModule(manifest)
         ELSE UNCHANGED <<modules, capabilityMap, moduleCapabilities>>
      /\ UNCHANGED <<tenantStates, syncVars, calls>>

UnregisterModule(moduleId) ==
  IF ~hasModule(moduleId)
  THEN /\ last' = [op |-> "unregisterModule", code |-> "false", related |-> << >>]
       /\ UNCHANGED <<asyncVars, syncVars, calls>>
  ELSE /\ capabilityMap' = unregisterCapabilitiesMap(moduleId)
       /\ moduleCapabilities' = unregisterCapabilitiesTrack(moduleId)
       /\ modules' = deleteModule(moduleId)
       /\ last' = [op |-> "unregisterModule", code |-> "true", related |-> << >>]
       /\ UNCHANGED <<tenantStates, syncVars, calls>>

(***************************************************************************)
(* TenantControl                                                           *)
(***************************************************************************)
isEnabled(tenantId, moduleId) == stateEnabled(tenantId, moduleId)

getEnabledModules(tenantId) ==
  { s.moduleId : s \in { st \in getTenantStates(tenantId) : st.enabled } }

\* Mutant: optional dependencies are not skipped.
missingDeps_IgnoreOptional(tenantId, module) ==
  LET sel == SelectSeq(module.dependencies,
                       LAMBDA dep : ~stateEnabled(tenantId, dep.moduleId))
  IN  [i \in 1..Len(sel) |-> sel[i].moduleId]

\* missingDeps of enableModule, in the order of module.dependencies
missingDeps(tenantId, module) ==
  LET sel == SelectSeq(module.dependencies,
                       LAMBDA dep : ~dep.optional /\ ~stateEnabled(tenantId, dep.moduleId))
  IN  [i \in 1..Len(sel) |-> sel[i].moduleId]

\* Mutant: dependents are listed whatever their tenant state.
enabledDependents_AnyState(tenantId, moduleId) ==
  LET sel == SelectSeq(modules,
                 LAMBDA otherModule :
                   /\ otherModule.moduleId # moduleId
                   /\ \E i \in DOMAIN otherModule.dependencies :
                        /\ otherModule.dependencies[i].moduleId = moduleId
                        /\ ~otherModule.dependencies[i].optional)
  IN  [i \in 1..Len(sel) |-> sel[i].moduleId]

\* Mutant: a dependent counts whether or not its dependency is optional.
enabledDependents_IgnoreOptional(tenantId, moduleId) ==
  LET sel == SelectSeq(modules,
                 LAMBDA otherModule :
                   /\ otherModule.moduleId # moduleId
                   /\ \E i \in DOMAIN otherModule.dependencies :
                        otherModule.dependencies[i].moduleId = moduleId
                   /\ stateEnabled(tenantId, otherModule.moduleId))
  IN  [i \in 1..Len(sel) |-> sel[i].moduleId]

\* enabledDependents of disableModule, in the order of getAllModules()
enabledDependents(tenantId, moduleId) ==
  LET sel == SelectSeq(modules,
                 LAMBDA otherModule :
                   /\ otherModule.moduleId # moduleId
                   /\ \E i \in DOMAIN otherModule.dependencies :
                        /\ otherModule.dependencies[i].moduleId = moduleId
                        /\ ~otherModule.dependencies[i].optional
                   /\ stateEnabled(tenantId, otherModule.moduleId))
  IN  [i \in 1..Len(sel) |-> sel[i].moduleId]

enableModuleResult(tenantId, moduleId) ==
  IF ~hasModule(moduleId)
  THEN [code |-> "MODULE_NOT_FOUND", related |-> << >>]
  ELSE IF stateEnabled(tenantId, moduleId)
    THEN [code |-> "ALREADY_ENABLED", related |-> << >>]
  ELSE IF Len(missingDeps(tenantId, getModule(moduleId))) > 0
    THEN [code |-> "DEPENDENCY_MISSING",
          related |-> missingDeps(tenantId, getModule(moduleId))]
  ELSE [code |-> "OK", related |-> << >>]

disableModuleResult(tenantId, moduleId) ==
  IF ~hasModule(moduleId)
  THEN [code |-> "MODULE_NOT_FOUND", related |-> << >>]
  ELSE IF ~stateEnabled(tenantId, moduleId)
    THEN [code |-> "ALREADY_DISABLED", related |-> << >>]
  ELSE IF Len(enabledDependents(tenantId, moduleId)) > 0
    THEN [code |-> "DEPENDENT_EXISTS",
          related |-> enabledDependents(tenantId, moduleId)]
  ELSE [code |-> "OK", related |-> << >>]

EnableModule(tenantId, moduleId) ==
  LET r == enableModuleResult(tenantId, moduleId)
  IN  /\ last' = [op |-> "enableModule", code |-> r.code, related |-> r.related]
      /\ tenantStates' =
           IF r.code = "OK"
           THEN saveTenantState([tenantId |-> tenantId, moduleId |-> moduleId,
                                 enabled |-> TRUE])
           ELSE tenantStates
      /\ UNCHANGED <<modules, capabilityMap, moduleCapabilities, syncVars, calls>>

DisableModule(tenantId, moduleId) ==
  LET r == disableModuleResult(tenantId, moduleId)
  IN  /\ last' = [op |-> "disableModule", code |-> r.code, related |-> r.related]
      /\ tenantStates' =
           IF r.code = "OK"
           THEN saveTenantState([tenantId |-> tenantId, moduleId |-> moduleId,
                                 enabled |-> FALSE])
           ELSE tenantStates
      /\ UNCHANGED <<modules, capabilityMap, moduleCapabilities, syncVars, calls>>

(***************************************************************************)
(* Read operations of the async ModuleRegistry                             *)
(***************************************************************************)
\* Capability ids offered to the lookups: the declared ones, one without a
\* separator ("c1") and one with an empty name ("ns:").
LookupCapIds == CapIds \cup { <<"c1">>, <<"ns", "">> }

\* Mutant: reading the state of a pair creates its record.
tenantStatesAfterGet_Creates(tenantId, moduleId) ==
  IF hasTenantState(tenantId, moduleId) THEN tenantStates
  ELSE saveTenantState([tenantId |-> tenantId, moduleId |-> moduleId,
                        enabled |-> FALSE])

\* The tenant-state Map after storage.getTenantState(tenantId, moduleId): a
\* Map.get and a copy of the record, no write.
tenantStatesAfterGet(tenantId, moduleId) == tenantStates

Bool(b) == IF b THEN "true" ELSE "false"

ResolveCapability(capabilityId) ==
  LET r == resolve(capabilityId)
  IN  /\ last' = [op |-> "resolveCapability", code |-> r.code,
                  related |-> IF r.code = "OK" THEN << r.module.moduleId >>
                              ELSE << >>]
      /\ UNCHANGED <<asyncVars, syncVars, calls>>

HasCapability(capabilityId) ==
  /\ last' = [op |-> "hasCapability", code |-> Bool(hasCapability(capabilityId)),
              related |-> << >>]
  /\ UNCHANGED <<asyncVars, syncVars, calls>>

ListModules ==
  /\ last' = [op |-> "listModules", code |-> "OK",
              related |-> [i \in DOMAIN modules |-> modules[i].moduleId]]
  /\ UNCHANGED <<asyncVars, syncVars, calls>>

GetModule(moduleId) ==
  /\ last' = [op |-> "getModule",
              code |-> IF hasModule(moduleId) THEN "found" ELSE "null",
              related |-> << >>]
  /\ UNCHANGED <<asyncVars, syncVars, calls>>

IsModuleEnabled(tenantId, moduleId) ==
  /\ last' = [op |-> "isModuleEnabled", code |-> Bool(isEnabled(tenantId, moduleId)),
              related |-> << >>]
  /\ tenantStates' = tenantStatesAfterGet(tenantId, moduleId)
  /\ UNCHANGED <<modules, capabilityMap, moduleCapabilities, syncVars, calls>>

GetModuleState(tenantId, moduleId) ==
  /\ last' = [op |-> "getModuleState",
              code |-> IF hasTenantState(tenantId, moduleId) THEN "found" ELSE "null",
              related |-> << >>]
  /\ tenantStates' = tenantStatesAfterGet(tenantId, moduleId)
  /\ UNCHANGED <<modules, capabilityMap, moduleCapabilities, syncVars, calls>>

\* The list is a set in this model; the step records how many ids it holds.
GetEnabledModules(tenantId) ==
  /\ last' = [op |-> "getEnabledModules", code |-> "OK",
              related |-> [i \in 1..Cardinality(getEnabledModules(tenantId)) |->
                             tenantId]]
  /\ UNCHANGED <<asyncVars, syncVars, calls>>

\* validateManifest(candidate): the step keeps the candidate and the result.
ValidateManifest(candidate) ==
  LET result == validate(candidate)
  IN  /\ last' = [op |-> "validateManifest", code |-> Bool(result.valid),
                  related |-> << >>, manifest |-> candidate,
                  errors |-> result.errors]
      /\ UNCHANGED <<asyncVars, syncVars, calls>>

ReadStep ==
  \/ \E capabilityId \in LookupCapIds : ResolveCapability(capabilityId)
  \/ \E capabilityId \in LookupCapIds : HasCapability(capabilityId)
  \/ ListModules
  \/ \E moduleId \in ModuleIds : GetModule(moduleId)
  \/ \E tenantId \in TenantIds, moduleId \in ModuleIds : IsModuleEnabled(tenantId, moduleId)
  \/ \E tenantId \in TenantIds, moduleId \in ModuleIds : GetModuleState(tenantId, moduleId)
  \/ \E tenantId \in TenantIds : GetEnabledModules(tenantId)

(***************************************************************************)
(* The synchronous ModuleRegistry (dist/registry.js, dist/validator.js)    *)
(***************************************************************************)
\* CAPABILITY_ID_PATTERN of dist/validator.js has no ':' in it: one segment.
syncIsValidCapabilityId(capabilityId) ==
  /\ Len(capabilityId) = 1
  /\ capabilityId[1] # ""

\* The schema as the synchronous validator applies it.
syncSchemaErrors(manifest) ==
  LET idErr == IF isValidModuleId(manifest.moduleId) THEN << >>
               ELSE << [code |-> "SCHEMA_VALIDATION_ERROR", path |-> "/moduleId"] >>
      enumErr == IF manifest.class \in ModuleClasses THEN << >>
                 ELSE << [code |-> "SCHEMA_VALIDATION_ERROR", path |-> "/class"] >>
      badCaps == SelectSeq(manifest.capabilities,
                           LAMBDA cap : ~syncIsValidCapabilityId(cap.id))
      badDeps == SelectSeq(manifest.dependencies,
                           LAMBDA dep : ~isValidModuleId(dep.moduleId))
  IN  idErr \o enumErr
        \o [k \in 1..Len(badCaps) |->
              [code |-> "SCHEMA_VALIDATION_ERROR", path |-> "/capabilities"]]
        \o [k \in 1..Len(badDeps) |->
              [code |-> "SCHEMA_VALIDATION_ERROR", path |-> "/dependencies"]]

syncValidateManifest(manifest) ==
  LET schemaErrors == syncSchemaErrors(manifest)
      classErr == IF isValidModuleId(manifest.moduleId)
                     /\ manifest.moduleId[2] # manifest.class
                  THEN << [code |-> "MODULE_CLASS_MISMATCH", path |-> "/class"] >>
                  ELSE << >>
      capErr == RepeatErrors([i \in DOMAIN manifest.capabilities |->
                                manifest.capabilities[i].id],
                             "DUPLICATE_CAPABILITY_ID", "/capabilities")
      selfDeps == SelectSeq(manifest.dependencies,
                            LAMBDA d : d.moduleId = manifest.moduleId)
      selfErr == [k \in 1..Len(selfDeps) |->
                    [code |-> "SELF_DEPENDENCY", path |-> "/dependencies"]]
      depErr == RepeatErrors([i \in DOMAIN manifest.dependencies |->
                                manifest.dependencies[i].moduleId],
                             "DUPLICATE_DEPENDENCY", "/dependencies")
      errors == IF Len(schemaErrors) > 0 THEN schemaErrors
                ELSE classErr \o capErr \o selfErr \o depErr
  IN  [valid |-> Len(errors) = 0, errors |-> errors]

\* Manifests offered to the synchronous registry: three modules, each with
\* the class of its moduleId, no capabilities and varied dependency lists;
\* of these, the manifests the validator accepts.
SyncModuleIds == ModuleIds \cup { <<"webwaka", "suite", "c">> }

SyncManifests ==
  { manifest \in
      { [ moduleId     |-> id,
          class        |-> id[2],
          capabilities |-> << >>,
          dependencies |-> deps ] :
          id \in SyncModuleIds,
          deps \in SeqsUpTo([moduleId : SyncModuleIds, optional : BOOLEAN],
                            MaxSyncDeps) } :
      syncValidateManifest(manifest).valid }

syncIds == { syncModules[i].moduleId : i \in DOMAIN syncModules }

\* this.modules.get(moduleId), used where the id is a key of the Map.
syncGet(moduleId) ==
  syncModules[CHOOSE i \in DOMAIN syncModules : syncModules[i].moduleId = moduleId]

\* Mutant: registerModule without the scan for unregistered dependencies.
syncRegisterModuleCode_NoDependencyCheck(manifest) ==
  IF ~syncValidateManifest(manifest).valid THEN "VALIDATION"
  ELSE IF manifest.moduleId \in syncIds THEN "MODULE_ALREADY_REGISTERED"
  ELSE IF \E i \in DOMAIN manifest.capabilities :
            manifest.capabilities[i].id \in DOMAIN capabilityIndex
    THEN "CAPABILITY_CONFLICT"
  ELSE "OK"

\* The code of the first error registerModule returns, "OK" when it registers.
\* The dependencies of this model carry no required-capability list, so the
\* MISSING_REQUIRED_CAPABILITY scan has nothing to visit.
syncRegisterModuleCode(manifest) ==
  IF ~syncValidateManifest(manifest).valid THEN "VALIDATION"
  ELSE IF manifest.moduleId \in syncIds THEN "MODULE_ALREADY_REGISTERED"
  ELSE IF \E i \in DOMAIN manifest.capabilities :
            manifest.capabilities[i].id \in DOMAIN capabilityIndex
    THEN "CAPABILITY_CONFLICT"
  ELSE IF \E i \in DOMAIN manifest.dependencies :
            /\ ~manifest.dependencies[i].optional
            /\ manifest.dependencies[i].moduleId \notin syncIds
    THEN "MISSING_DEPENDENCY"
  ELSE "OK"

SyncRegisterModule(manifest) ==
  LET code == syncRegisterModuleCode(manifest)
  IN  /\ last' = [op |-> "syncRegisterModule", code |-> code, related |-> << >>]
      /\ IF code = "OK"
         THEN /\ syncModules' = Append(syncModules, manifest)
              /\ capabilityIndex' =
                   [c \in DOMAIN capabilityIndex \cup capIds(manifest.capabilities) |->
                      IF c \in capIds(manifest.capabilities) THEN manifest.moduleId
                      ELSE capabilityIndex[c]]
              /\ UNCHANGED syncTenantStates
         ELSE UNCHANGED syncVars
      /\ UNCHANGED <<asyncVars, calls>>

SyncClear ==
  /\ syncModules' = << >>
  /\ capabilityIndex' = << >>
  /\ syncTenantStates' = << >>
  /\ last' = [op |-> "syncClear", code |-> "OK", related |-> << >>]
  /\ UNCHANGED <<asyncVars, calls>>

\* Manifests offered to the synchronous registry next to the tenant calls:
\* two modules, each with the class of its moduleId and varied dependencies.
SyncTenantManifests ==
  { [ moduleId     |-> id,
      class        |-> id[2],
      capabilities |-> << >>,
      dependencies |-> deps ] :
      id \in ModuleIds, deps \in SeqsUpTo(ModuleDependency, MaxDeps) }

\* The tenant of the synchronous calls: each tenant has a Map of its own and
\* no call reads or writes the Map of another tenant.
SyncTenantIds == { <<"a">> }

\* The values new Date().toISOString() takes at the calls.
SyncTimes == {"t1", "t2"}

\* this.tenantStates.get(tenantId): the tenant's Map of module states in
\* insertion order, empty when the tenant has none.
tenantModules(tenantId) ==
  IF tenantId \in DOMAIN syncTenantStates THEN syncTenantStates[tenantId] ELSE << >>

syncHasState(tenantId, moduleId) ==
  \E i \in DOMAIN tenantModules(tenantId) :
    tenantModules(tenantId)[i].moduleId = moduleId

\* existing?.enabled
syncStateEnabled(tenantId, moduleId) ==
  \E i \in DOMAIN tenantModules(tenantId) :
    /\ tenantModules(tenantId)[i].moduleId = moduleId
    /\ tenantModules(tenantId)[i].enabled

\* tenantModules.set(state.moduleId, state): an existing key keeps its place.
tenantModulesSet(tenantId, state) ==
  LET tm == tenantModules(tenantId)
      entries == IF syncHasState(tenantId, state.moduleId)
                 THEN [i \in DOMAIN tm |->
                         IF tm[i].moduleId = state.moduleId THEN state ELSE tm[i]]
                 ELSE Append(tm, state)
  IN  [t \in DOMAIN syncTenantStates \cup {tenantId} |->
         IF t = tenantId THEN entries ELSE syncTenantStates[t]]

\* The tenant Map after "get or create tenant state map".
tenantMapCreated(tenantId) ==
  [t \in DOMAIN syncTenantStates \cup {tenantId} |-> tenantModules(t)]

syncMissingDeps(tenantId, module) ==
  LET sel == SelectSeq(module.dependencies,
                LAMBDA dep : ~dep.optional /\ ~syncStateEnabled(tenantId, dep.moduleId))
  IN  [i \in 1..Len(sel) |-> sel[i].moduleId]

\* The dependents of disableModule, in the order of the tenant's Map.
syncDependents(tenantId, moduleId) ==
  LET sel == SelectSeq(tenantModules(tenantId),
                LAMBDA state :
                  /\ state.enabled
                  /\ state.moduleId # moduleId
                  /\ state.moduleId \in syncIds
                  /\ \E i \in DOMAIN syncGet(state.moduleId).dependencies :
                       /\ syncGet(state.moduleId).dependencies[i].moduleId = moduleId
                       /\ ~syncGet(state.moduleId).dependencies[i].optional)
  IN  [i \in 1..Len(sel) |-> sel[i].moduleId]

\* Mutant: an already-enabled pair is enabled again.
syncEnableModuleResult_NoEnabledCheck(tenantId, moduleId) ==
  IF moduleId \notin syncIds
  THEN [success |-> FALSE, code |-> "NOT_REGISTERED", related |-> << >>]
  ELSE IF Len(syncMissingDeps(tenantId, syncGet(moduleId))) > 0
    THEN [success |-> FALSE, code |-> "DEPENDENCIES_NOT_ENABLED",
          related |-> syncMissingDeps(tenantId, syncGet(moduleId))]
  ELSE [success |-> TRUE, code |-> "ENABLED", related |-> << >>]

\* The result of enableModule: success, the return it takes and the
\* affectedDependencies.
syncEnableModuleResult(tenantId, moduleId) ==
  IF moduleId \notin syncIds
  THEN [success |-> FALSE, code |-> "NOT_REGISTERED", related |-> << >>]
  ELSE IF syncStateEnabled(tenantId, moduleId)
    THEN [success |-> TRUE, code |-> "ALREADY_ENABLED", related |-> << >>]
  ELSE IF Len(syncMissingDeps(tenantId, syncGet(moduleId))) > 0
    THEN [success |-> FALSE, code |-> "DEPENDENCIES_NOT_ENABLED",
          related |-> syncMissingDeps(tenantId, syncGet(moduleId))]
  ELSE [success |-> TRUE, code |-> "ENABLED", related |-> << >>]

\* Mutant: a module is disabled whatever depends on it.
syncDisableModuleResult_NoDependentCheck(tenantId, moduleId) ==
  IF moduleId \notin syncIds
  THEN [success |-> FALSE, code |-> "NOT_REGISTERED", related |-> << >>]
  ELSE IF tenantId \notin DOMAIN syncTenantStates
    THEN [success |-> TRUE, code |-> "NO_TENANT_MAP", related |-> << >>]
  ELSE IF ~syncStateEnabled(tenantId, moduleId)
    THEN [success |-> TRUE, code |-> "ALREADY_DISABLED", related |-> << >>]
  ELSE [success |-> TRUE, code |-> "DISABLED", related |-> << >>]

syncDisableModuleResult(tenantId, moduleId) ==
  IF moduleId \notin syncIds
  THEN [success |-> FALSE, code |-> "NOT_REGISTERED", related |-> << >>]
  ELSE IF tenantId \notin DOMAIN syncTenantStates
    THEN [success |-> TRUE, code |-> "NO_TENANT_MAP", related |-> << >>]
  ELSE IF ~syncStateEnabled(tenantId, moduleId)
    THEN [success |-> TRUE, code |-> "ALREADY_DISABLED", related |-> << >>]
  ELSE IF Len(syncDependents(tenantId, moduleId)) > 0
    THEN [success |-> FALSE, code |-> "DEPENDENTS_ENABLED",
          related |-> syncDependents(tenantId, moduleId)]
  ELSE [success |-> TRUE, code |-> "DISABLED", related |-> << >>]

SyncEnableModule(tenantId, moduleId, now) ==
  LET r == syncEnableModuleResult(tenantId, moduleId)
  IN  /\ last' = [op |-> "syncEnableModule", code |-> r.code, related |-> r.related,
                  success |-> r.success]
      /\ syncTenantStates' =
           IF r.code = "NOT_REGISTERED" THEN syncTenantStates
           ELSE IF r.code = "ENABLED"
             THEN tenantModulesSet(tenantId,
                    [moduleId |-> moduleId, enabled |-> TRUE,
                     enabledAt |-> <<now>>, disabledAt |-> << >>])
           ELSE tenantMapCreated(tenantId)
      /\ UNCHANGED <<syncModules, capabilityIndex, asyncVars, calls>>

SyncDisableModule(tenantId, moduleId, now) ==
  LET r == syncDisableModuleResult(tenantId, moduleId)
  IN  /\ last' = [op |-> "syncDisableModule", code |-> r.code, related |-> r.related,
                  success |-> r.success]
      /\ syncTenantStates' =
           IF r.code = "DISABLED"
           THEN tenantModulesSet(tenantId,
                  [moduleId |-> moduleId, enabled |-> FALSE,
                   enabledAt |-> << >>, disabledAt |-> <<now>>])
           ELSE syncTenantStates
      /\ UNCHANGED <<syncModules, capabilityIndex, asyncVars, calls>>

\* Mutant: the scan stops after the first dependent.
getDependents_FirstOnly(moduleId) ==
  LET sel == SelectSeq(syncModules,
                LAMBDA module :
                  /\ module.moduleId # moduleId
                  /\ \E i \in DOMAIN module.dependencies :
                       module.dependencies[i].moduleId = moduleId)
  IN  IF Len(sel) = 0 THEN << >> ELSE << sel[1].moduleId >>

\* getDependents(moduleId), in the order of the module Map.
getDependents(moduleId) ==
  LET sel == SelectSeq(syncModules,
                LAMBDA module :
                  /\ module.moduleId # moduleId
                  /\ \E i \in DOMAIN module.dependencies :
                       module.dependencies[i].moduleId = moduleId)
  IN  [i \in 1..Len(sel) |-> sel[i].moduleId]

RECURSIVE visit(_, _)
RECURSIVE visitDeps(_, _, _)

\* The for-loop of visit over mod.dependencies from index i on; st holds the
\* closure's `visited` set and `result` list.
visitDeps(deps, i, st) ==
  IF i > Len(deps) THEN st
  ELSE visitDeps(deps, i + 1,
                 IF deps[i].optional THEN st ELSE visit(deps[i].moduleId, st))

visit(id, st) ==
  IF id \in st.visited THEN st
  ELSE LET marked == [visited |-> st.visited \cup {id}, result |-> st.result]
       IN  IF id \notin syncIds THEN marked
           ELSE LET after == visitDeps(syncGet(id).dependencies, 1, marked)
                IN  [visited |-> after.visited, result |-> Append(after.result, id)]

\* Mutant: a module is listed before its dependencies.
getDependencyOrder_PreOrder(moduleId) ==
  IF moduleId \notin syncIds THEN << >>
  ELSE LET r == visit(moduleId, [visited |-> {}, result |-> << >>]).result
       IN  [i \in 1..Len(r) |-> r[Len(r) + 1 - i]]

getDependencyOrder(moduleId) ==
  IF moduleId \notin syncIds THEN << >>
  ELSE visit(moduleId, [visited |-> {}, result |-> << >>]).result

GetDependents(moduleId) ==
  /\ last' = [op |-> "getDependents", code |-> "OK",
              related |-> getDependents(moduleId)]
  /\ UNCHANGED <<asyncVars, syncVars, calls>>

GetDependencyOrder(moduleId) ==
  /\ last' = [op |-> "getDependencyOrder", code |-> "OK",
              related |-> getDependencyOrder(moduleId)]
  /\ UNCHANGED <<asyncVars, syncVars, calls>>

(***************************************************************************)
(* Calls in flight: enableModule and disableModule between their awaits    *)
(*                                                                         *)
(* calls.procs holds the calls that were issued together and have not yet  *)
(* settled, calls.base the tenant states at the moment they were issued.   *)
(* A call is suspended before one storage operation, named by pc; a step   *)
(* performs that operation on the store as it is now, runs the code up to  *)
(* the next storage operation and suspends there.                          *)
(***************************************************************************)
CallOps == {"enableModule", "disableModule"}

\* The frame of a call that has been issued and has run no step yet.
IssuedCall(op, tenantId, moduleId) ==
  [ op |-> op, tenantId |-> tenantId, moduleId |-> moduleId,
    pc |-> "getModule", module |-> << >>, all |-> << >>, i |-> 0,
    acc |-> << >>, code |-> "PENDING", related |-> << >> ]

\* The frame of a call that has returned or thrown; its locals are gone.
settled(p, code, related) ==
  [ IssuedCall(p.op, p.tenantId, p.moduleId) EXCEPT
      !.pc = "done", !.code = code, !.related = related ]

\* The least index of S, 0 when S is empty.
nextIndex(S) == IF S = {} THEN 0 ELSE CHOOSE j \in S : \A k \in S : j <= k

\* for (const dep of module.dependencies) { if (dep.optional) continue; ...
nextRequiredDep(module, i) ==
  nextIndex({ j \in DOMAIN module.dependencies :
                j > i /\ ~module.dependencies[j].optional })

\* otherModule.dependencies.some(d => d.moduleId === moduleId && !d.optional)
dependsOnTarget(otherModule, moduleId) ==
  \E j \in DOMAIN otherModule.dependencies :
     /\ otherModule.dependencies[j].moduleId = moduleId
     /\ ~otherModule.dependencies[j].optional

\* for (const otherModule of allModules): the next one whose state is read
nextDependent(all, moduleId, i) ==
  nextIndex({ j \in DOMAIN all :
                /\ j > i
                /\ all[j].moduleId # moduleId
                /\ dependsOnTarget(all[j], moduleId) })

\* One step of enableModule: the frame after the storage operation p.pc.
enableModuleStep(p) ==
  CASE p.pc = "getModule" ->
         IF hasModule(p.moduleId)
         THEN [p EXCEPT !.module = <<getModule(p.moduleId)>>, !.pc = "getTenantState"]
         ELSE settled(p, "MODULE_NOT_FOUND", << >>)
    [] p.pc = "getTenantState" ->
         IF stateEnabled(p.tenantId, p.moduleId)
         THEN settled(p, "ALREADY_ENABLED", << >>)
         ELSE IF nextRequiredDep(p.module[1], 0) = 0
           THEN [p EXCEPT !.pc = "saveTenantState"]
           ELSE [p EXCEPT !.pc = "depState", !.i = nextRequiredDep(p.module[1], 0)]
    [] p.pc = "depState" ->
         LET dep == p.module[1].dependencies[p.i]
             missing == IF stateEnabled(p.tenantId, dep.moduleId)
                        THEN p.acc ELSE Append(p.acc, dep.moduleId)
             j == nextRequiredDep(p.module[1], p.i)
         IN  IF j # 0 THEN [p EXCEPT !.acc = missing, !.i = j]
             ELSE IF Len(missing) > 0
               THEN settled(p, "DEPENDENCY_MISSING", missing)
               ELSE [p EXCEPT !.acc = missing, !.pc = "saveTenantState"]
    [] OTHER -> settled(p, "OK", << >>)

\* One step of disableModule: the frame after the storage operation p.pc.
disableModuleStep(p) ==
  CASE p.pc = "getModule" ->
         IF hasModule(p.moduleId)
         THEN [p EXCEPT !.module = <<getModule(p.moduleId)>>, !.pc = "getTenantState"]
         ELSE settled(p, "MODULE_NOT_FOUND", << >>)
    [] p.pc = "getTenantState" ->
         IF ~stateEnabled(p.tenantId, p.moduleId)
         THEN settled(p, "ALREADY_DISABLED", << >>)
         ELSE [p EXCEPT !.pc = "getAllModules"]
    [] p.pc = "getAllModules" ->
         IF nextDependent(modules, p.moduleId, 0) = 0
         THEN [p EXCEPT !.all = modules, !.pc = "saveTenantState"]
         ELSE [p EXCEPT !.all = modules, !.pc = "otherState",
                        !.i = nextDependent(modules, p.moduleId, 0)]
    [] p.pc = "otherState" ->
         LET otherModule == p.all[p.i]
             dependents == IF stateEnabled(p.tenantId, otherModule.moduleId)
                           THEN Append(p.acc, otherModule.moduleId) ELSE p.acc
             j == nextDependent(p.all, p.moduleId, p.i)
         IN  IF j # 0 THEN [p EXCEPT !.acc = dependents, !.i = j]
             ELSE IF Len(dependents) > 0
               THEN settled(p, "DEPENDENT_EXISTS", dependents)
               ELSE [p EXCEPT !.acc = dependents, !.pc = "saveTenantState"]
    [] OTHER -> settled(p, "OK", << >>)

inFlight == calls.procs # << >>

allSettled == \A k \in DOMAIN calls.procs : calls.procs[k].pc = "done"

\* Two calls are issued together; neither has run a step yet.
IssueCalls(c1, c2) ==
  /\ ~inFlight
  /\ calls' = [ base  |-> tenantStates,
                procs |-> << IssuedCall(c1.op, c1.tenantId, c1.moduleId),
                             IssuedCall(c2.op, c2.tenantId, c2.moduleId) >> ]
  /\ last' = [op |-> "issue", code |-> "OK", related |-> << >>]
  /\ UNCHANGED <<asyncVars, syncVars>>

\* The call k resumes from its await and runs to its next await or its end.
Resume(k) ==
  /\ k \in DOMAIN calls.procs
  /\ calls.procs[k].pc # "done"
  /\ LET p == calls.procs[k]
     IN  /\ calls' = [calls EXCEPT !.procs[k] =
                        IF p.op = "enableModule"
                        THEN enableModuleStep(p) ELSE disableModuleStep(p)]
         /\ tenantStates' =
              IF p.pc = "saveTenantState"
              THEN saveTenantState([tenantId |-> p.tenantId, moduleId |-> p.moduleId,
                                    enabled |-> (p.op = "enableModule")])
              ELSE tenantStates
  /\ UNCHANGED <<modules, capabilityMap, moduleCapabilities, syncVars, last>>

\* Both promises have settled and the caller goes on.
Settle ==
  /\ inFlight
  /\ allSettled
  /\ calls' = [base |-> << >>, procs |-> << >>]
  /\ last' = [op |-> "settle", code |-> "OK", related |-> << >>]
  /\ UNCHANGED <<asyncVars, syncVars>>

(***************************************************************************)
(* Calls in flight: registerModule between its awaits                      *)
(***************************************************************************)
\* Manifests of the concurrently issued registrations: valid, without
\* dependencies, at most one capability each.
RegisterCallManifests ==
  { [ moduleId     |-> id,
      class        |-> id[2],
      capabilities |-> caps,
      dependencies |-> << >> ] :
      id \in ModuleIds, caps \in SeqsUpTo(Capability, 1) }

\* The frame of a registerModule call that has run up to its first await:
\* step 1 validates before anything is awaited.
IssuedRegister(manifest) ==
  IF ~validate(manifest).valid
  THEN [ op |-> "registerModule", manifest |-> manifest, pc |-> "done",
         code |-> "VALIDATION_FAILED" ]
  ELSE [ op |-> "registerModule", manifest |-> manifest, pc |-> "getModule",
         code |-> "PENDING" ]

\* One step of registerModule: the frame after the await p.pc. Steps 3 and 4
\* run in the turn that receives the result of getModule; the turn after the
\* cycle walk runs registerCapabilities and calls saveModule. The walk of a
\* manifest without dependencies reads nothing from the store.
registerModuleStep(p) ==
  CASE p.pc = "getModule" ->
         IF hasModule(p.manifest.moduleId)
         THEN [p EXCEPT !.pc = "done", !.code = "ALREADY_REGISTERED"]
         ELSE IF Len(checkForDuplicates(p.manifest.capabilities)) > 0
           THEN [p EXCEPT !.pc = "done", !.code = "CAPABILITY_CONFLICT"]
         ELSE IF \E i \in DOMAIN p.manifest.dependencies :
                   ~isValidModuleId(p.manifest.dependencies[i].moduleId)
           THEN [p EXCEPT !.pc = "done", !.code = "VALIDATION_FAILED"]
         ELSE [p EXCEPT !.pc = "checkCircularDependencies"]
    [] p.pc = "checkCircularDependencies" ->
         IF checkCircularDependencies(p.manifest, {}, << >>).hasCircular
         THEN [p EXCEPT !.pc = "done", !.code = "CIRCULAR_DEPENDENCY"]
         ELSE IF registerCapabilitiesThrows(p.manifest)
           THEN [p EXCEPT !.pc = "done", !.code = "DUPLICATE"]
         ELSE [p EXCEPT !.pc = "saveModule"]
    [] OTHER -> [p EXCEPT !.pc = "done", !.code = "OK"]

\* Two registerModule calls are issued together.
IssueRegisterCalls(m1, m2) ==
  /\ ~inFlight
  /\ calls' = [ base  |-> << >>,
                procs |-> << IssuedRegister(m1), IssuedRegister(m2) >> ]
  /\ last' = [op |-> "issue", code |-> "OK", related |-> << >>]
  /\ UNCHANGED <<asyncVars, syncVars>>

\* The registerModule call k resumes from its await and runs to its next
\* await or its end.
ResumeRegister(k) ==
  /\ k \in DOMAIN calls.procs
  /\ calls.procs[k].pc # "done"
  /\ LET p == calls.procs[k]
         q == registerModuleStep(p)
     IN  /\ calls' = [calls EXCEPT !.procs[k] = q]
         /\ IF p.pc = "checkCircularDependencies" /\ q.pc = "saveModule"
            THEN /\ capabilityMap' = registerCapabilitiesMap(p.manifest)
                 /\ moduleCapabilities' = registerCapabilitiesTrack(p.manifest)
            ELSE UNCHANGED <<capabilityMap, moduleCapabilities>>
         /\ modules' = IF p.pc = "saveModule" THEN saveModule(p.manifest) ELSE modules
  /\ UNCHANGED <<tenantStates, syncVars, last>>

(***************************************************************************)
(* Specification                                                           *)
(***************************************************************************)
Init ==
  /\ modules = << >>
  /\ tenantStates = << >>
  /\ capabilityMap = << >>
  /\ moduleCapabilities = << >>
  /\ syncModules = << >>
  /\ capabilityIndex = << >>
  /\ syncTenantStates = << >>
  /\ calls = [base |-> << >>, procs |-> << >>]
  /\ last = [op |-> "init", code |-> "OK", related |-> << >>]

TenantStep ==
  \/ \E moduleId \in ModuleIds : UnregisterModule(moduleId)
  \/ \E tenantId \in TenantIds, moduleId \in ModuleIds : EnableModule(tenantId, moduleId)
  \/ \E tenantId \in TenantIds, moduleId \in ModuleIds : DisableModule(tenantId, moduleId)

\* Registry with varied dependency lists.
Next ==
  \/ \E manifest \in DepManifests : RegisterModule(manifest)
  \/ TenantStep

Spec == Init /\ [][Next]_vars

\* Registry with varied capability lists.
NextCaps ==
  \/ \E manifest \in CapManifests : RegisterModule(manifest)
  \/ TenantStep

SpecCaps == Init /\ [][NextCaps]_vars

\* Registry with varied capability lists and the read operations.
NextReads ==
  \/ NextCaps
  \/ ReadStep

SpecReads == Init /\ [][NextReads]_vars

\* The lifecycle of one module on a fresh registry: a candidate is validated;
\* a valid one with capabilities and no dependencies is registered, enabled for
\* a tenant, one of its capabilities is resolved, it is disabled for that
\* tenant and its state is read.
NextLifecycle ==
  \/ /\ last.op = "init"
     /\ \E candidate \in Candidates : ValidateManifest(candidate)
  \/ /\ last.op = "validateManifest"
     /\ last.code = "true"
     /\ last.manifest.dependencies = << >>
     /\ last.manifest.capabilities # << >>
     /\ RegisterModule(last.manifest)
  \/ /\ last.op = "registerModule"
     /\ \E tenantId \in TenantIds : EnableModule(tenantId, modules[1].moduleId)
  \/ /\ last.op = "enableModule"
     /\ \E capabilityId \in capIds(modules[1].capabilities) :
          ResolveCapability(capabilityId)
  \/ /\ last.op = "resolveCapability"
     /\ \E tenantId \in TenantIds :
          /\ hasTenantState(tenantId, modules[1].moduleId)
          /\ DisableModule(tenantId, modules[1].moduleId)
  \/ /\ last.op = "disableModule"
     /\ \E tenantId \in TenantIds :
          /\ hasTenantState(tenantId, modules[1].moduleId)
          /\ IsModuleEnabled(tenantId, modules[1].moduleId)

SpecLifecycle == Init /\ [][NextLifecycle]_vars

\* The synchronous registry: registration, clear and the dependency queries.
NextSync ==
  \/ \E manifest \in SyncManifests : SyncRegisterModule(manifest)
  \/ SyncClear
  \/ \E moduleId \in SyncModuleIds : GetDependents(moduleId)
  \/ \E moduleId \in SyncModuleIds : GetDependencyOrder(moduleId)

SpecSync == Init /\ [][NextSync]_vars

\* One tenant: modules are registered and enabled or disabled one call at a
\* time, then two calls are issued together and interleave at their awaits.
RaceTenant == <<"a">>

RaceCalls == [op : CallOps, tenantId : {RaceTenant}, moduleId : ModuleIds]

NextRace ==
  \/ \E manifest \in DepManifests : ~inFlight /\ RegisterModule(manifest)
  \/ \E moduleId \in ModuleIds : ~inFlight /\ EnableModule(RaceTenant, moduleId)
  \/ \E moduleId \in ModuleIds : ~inFlight /\ DisableModule(RaceTenant, moduleId)
  \/ \E c1 \in RaceCalls, c2 \in RaceCalls : IssueCalls(c1, c2)
  \/ \E k \in 1..2 : Resume(k)
  \/ Settle

SpecRace == Init /\ [][NextRace]_vars

\* Two tenants: after calls made one at a time, one call of each tenant is
\* issued and the two interleave at their awaits.
ParallelCalls(tenantId) == [op : CallOps, tenantId : {tenantId}, moduleId : ModuleIds]

NextParallel ==
  \/ \E manifest \in DepManifests : ~inFlight /\ RegisterModule(manifest)
  \/ \E tenantId \in TenantIds, moduleId \in ModuleIds :
       ~inFlight /\ EnableModule(tenantId, moduleId)
  \/ \E tenantId \in TenantIds, moduleId \in ModuleIds :
       ~inFlight /\ DisableModule(tenantId, moduleId)
  \/ \E c1 \in ParallelCalls(<<"a">>), c2 \in ParallelCalls(<<"a", ":", "b">>) :
       IssueCalls(c1, c2)
  \/ \E k \in 1..2 : Resume(k)
  \/ Settle

SpecParallel == Init /\ [][NextParallel]_vars

\* Three modules for the cycle check of registerModule: each manifest has the
\* class of its moduleId, no capabilities and a dependency list on the other
\* modules without repeated targets.
CycleModuleIds == ModuleIds \cup { <<"webwaka", "suite", "c">> }

\* The dependency lists a manifest of module id may carry.
CycleDependencyLists(id) ==
  { list \in SeqsUpTo([moduleId : CycleModuleIds \ {id}, optional : BOOLEAN],
                      MaxCycleDeps) :
      \A i, j \in DOMAIN list : list[i].moduleId = list[j].moduleId => i = j }

CycleManifests ==
  UNION { { [ moduleId     |-> id,
              class        |-> id[2],
              capabilities |-> << >>,
              dependencies |-> deps ] : deps \in CycleDependencyLists(id) } :
          id \in CycleModuleIds }

\* Manifests whose one dependency is the module itself; the last moduleId does
\* not have the form the schema requires.
SelfDependentManifests ==
  { [ moduleId     |-> id,
      class        |-> id[2],
      capabilities |-> << >>,
      dependencies |-> << [moduleId |-> id, optional |-> optional] >> ] :
      id \in CycleModuleIds \cup { <<"webwaka", "core">> }, optional \in BOOLEAN }

NextCycle ==
  \/ \E manifest \in CycleManifests : RegisterModule(manifest)
  \/ \E manifest \in SelfDependentManifests : RegisterModule(manifest)
  \/ \E moduleId \in CycleModuleIds : UnregisterModule(moduleId)

SpecCycle == Init /\ [][NextCycle]_vars

\* Three modules whose manifests can fail every check of registerModule at
\* once: the declared class is that of the moduleId or "core", the one
\* capability is declared or not, and there is at most one dependency, on
\* another module.
OrderManifests ==
  UNION { { [ moduleId     |-> id,
              class        |-> class,
              capabilities |-> caps,
              dependencies |-> deps ] :
              class \in {id[2], "core"},
              caps \in { << >>, << [id |-> <<"ns", "c1">>] >> },
              deps \in { << >> } \cup
                       { << [moduleId |-> target, optional |-> FALSE] >> :
                           target \in CycleModuleIds \ {id} } } :
          id \in CycleModuleIds }

NextOrder ==
  \/ \E manifest \in OrderManifests : RegisterModule(manifest)
  \/ \E moduleId \in CycleModuleIds : UnregisterModule(moduleId)

SpecOrder == Init /\ [][NextOrder]_vars

\* Pairs of registerModule calls in flight, between unregistrations.
NextRegister ==
  \/ \E m1, m2 \in RegisterCallManifests : IssueRegisterCalls(m1, m2)
  \/ \E k \in 1..2 : ResumeRegister(k)
  \/ Settle
  \/ \E moduleId \in ModuleIds : ~inFlight /\ UnregisterModule(moduleId)

SpecRegister == Init /\ [][NextRegister]_vars

\* The synchronous registry with its tenant calls.
NextSyncTenant ==
  \/ \E manifest \in SyncTenantManifests : SyncRegisterModule(manifest)
  \/ SyncClear
  \/ \E tenantId \in SyncTenantIds, moduleId \in ModuleIds, now \in SyncTimes :
       SyncEnableModule(tenantId, moduleId, now)
  \/ \E tenantId \in SyncTenantIds, moduleId \in ModuleIds, now \in SyncTimes :
       SyncDisableModule(tenantId, moduleId, now)

SpecSyncTenant == Init /\ [][NextSyncTenant]_vars

(***************************************************************************)
(* Claims                                                                  *)
(***************************************************************************)
\* The non-optional dependency targets a registered module declares.
RequiredDeps(moduleId) ==
  { getModule(moduleId).dependencies[i].moduleId :
      i \in { j \in DOMAIN getModule(moduleId).dependencies :
                ~getModule(moduleId).dependencies[j].optional } }

\* The tenant-state table read directly: the record of (tenantId, moduleId),
\* as a set with at most one element.
StateRecord(tenantId, moduleId) ==
  { tenantStates[k] : k \in { key \in DOMAIN tenantStates :
                                key = tenantId \o <<":">> \o moduleId } }

EnabledFor(tenantId, moduleId) ==
  \E st \in StateRecord(tenantId, moduleId) : st.enabled

\* C1: in every reachable state, a registered module that is enabled for a
\* tenant has every non-optional dependency of its registered record enabled
\* for that tenant.
C1_EnabledImpliesDependenciesEnabled ==
  \A tenantId \in TenantIds : \A moduleId \in registeredIds :
    isEnabled(tenantId, moduleId) =>
      \A dep \in RequiredDeps(moduleId) : isEnabled(tenantId, dep)

\* Registered modules reached from the set S by at most n declared-dependency
\* edges whose target is registered.
RECURSIVE DependencyClosure(_, _)
DependencyClosure(S, n) ==
  IF n = 0 THEN S
  ELSE DependencyClosure(
         S \cup { d \in registeredIds :
                    \E x \in S : \E i \in DOMAIN getModule(x).dependencies :
                      getModule(x).dependencies[i].moduleId = d },
         n - 1)

DirectRegisteredDeps(moduleId) ==
  { d \in registeredIds : \E i \in DOMAIN getModule(moduleId).dependencies :
                            getModule(moduleId).dependencies[i].moduleId = d }

\* C2: the graph of registered modules and their declared dependencies with a
\* registered target has no cycle, in any registration order.
C2_DependencyGraphAcyclic ==
  \A moduleId \in registeredIds :
    moduleId \notin DependencyClosure(DirectRegisteredDeps(moduleId), Len(modules))

\* C3: no capability id is declared by two registered modules, and every bound
\* capability id is bound to one registered module, which declares it.
C3_CapabilityOwnedByOneModule ==
  /\ \A i, j \in DOMAIN modules :
       i # j => capIds(modules[i].capabilities) \cap capIds(modules[j].capabilities) = {}
  /\ \A c \in DOMAIN capabilityMap :
       /\ hasModule(capabilityMap[c].module.moduleId)
       /\ c \in capIds(getModule(capabilityMap[c].module.moduleId).capabilities)

C3_Witness ==
  /\ Len(modules) = 2
  /\ \A i \in DOMAIN modules : Len(modules[i].capabilities) > 0
  /\ last.op = "registerModule" /\ last.code = "OK"

\* Some registered module with another moduleId declares a capability id of B.
SharesCapability(B) ==
  \E i \in DOMAIN modules :
    /\ modules[i].moduleId # B.moduleId
    /\ capIds(modules[i].capabilities) \cap capIds(B.capabilities) # {}

\* C4 as stated: every valid manifest B that shares a capability id with a
\* registered module of another moduleId is refused with CAPABILITY_CONFLICT.
C4_Original ==
  \A B \in CapManifests :
    (validate(B).valid /\ SharesCapability(B)) =>
      registerModuleCode(B) = "CAPABILITY_CONFLICT"

\* C4 amended: when B's moduleId is not itself registered, registerModule(B)
\* fails with CAPABILITY_CONFLICT, and a registerModule call that fails so leaves
\* the module store and the capability index unchanged.
C4_ConflictRejectedWithoutMutation ==
  /\ [](\A B \in CapManifests :
          (~hasModule(B.moduleId) /\ SharesCapability(B) /\ validate(B).valid)
            => registerModuleCode(B) = "CAPABILITY_CONFLICT")
  /\ [][ (last'.op = "registerModule" /\ last'.code = "CAPABILITY_CONFLICT")
          => UNCHANGED <<modules, capabilityMap, moduleCapabilities>> ]_vars

C4_Witness ==
  /\ last.op = "registerModule" /\ last.code = "CAPABILITY_CONFLICT"
  /\ Len(modules) = 1
  /\ Cardinality(DOMAIN capabilityMap) = 1

\* C5: registerModule of a valid manifest whose moduleId is registered fails
\* with ALREADY_REGISTERED, and a call that fails so changes neither the module
\* store, nor the capability bindings, nor the tenant state.
C5_DuplicateRegistrationRejected ==
  /\ [](\A B \in CapManifests :
          (hasModule(B.moduleId) /\ validate(B).valid)
            => registerModuleCode(B) = "ALREADY_REGISTERED")
  /\ [][ (last'.op = "registerModule" /\ last'.code = "ALREADY_REGISTERED")
          => UNCHANGED <<modules, tenantStates, capabilityMap, moduleCapabilities>> ]_vars

C5_Witness ==
  /\ last.op = "registerModule" /\ last.code = "ALREADY_REGISTERED"
  /\ DOMAIN capabilityMap # {}
  /\ DOMAIN tenantStates # {}

\* The non-optional dependencies of a registered module that are not enabled
\* for the tenant, in declaration order.
RECURSIVE NotEnabledRequired(_, _, _)
NotEnabledRequired(tenantId, deps, i) ==
  IF i > Len(deps) THEN << >>
  ELSE IF ~deps[i].optional /\ ~EnabledFor(tenantId, deps[i].moduleId)
    THEN <<deps[i].moduleId>> \o NotEnabledRequired(tenantId, deps, i + 1)
    ELSE NotEnabledRequired(tenantId, deps, i + 1)

\* C6: enableModule decides MODULE_NOT_FOUND, then ALREADY_ENABLED, then
\* DEPENDENCY_MISSING with exactly the list of non-optional dependencies not
\* enabled for the tenant, and otherwise enables the pair; a failing call leaves
\* the tenant-state table unchanged.
C6_EnableDecisionOrder ==
  [][ \A tenantId \in TenantIds : \A moduleId \in ModuleIds :
        EnableModule(tenantId, moduleId) =>
          IF moduleId \notin registeredIds
          THEN last'.code = "MODULE_NOT_FOUND" /\ UNCHANGED tenantStates
          ELSE IF EnabledFor(tenantId, moduleId)
            THEN last'.code = "ALREADY_ENABLED" /\ UNCHANGED tenantStates
          ELSE IF NotEnabledRequired(tenantId, getModule(moduleId).dependencies, 1) # << >>
            THEN /\ last'.code = "DEPENDENCY_MISSING"
                 /\ last'.related =
                      NotEnabledRequired(tenantId, getModule(moduleId).dependencies, 1)
                 /\ UNCHANGED tenantStates
          ELSE /\ last'.code = "OK"
               /\ EnabledFor(tenantId, moduleId)' ]_vars

C6_Witness ==
  /\ last.op = "enableModule" /\ last.code = "DEPENDENCY_MISSING"
  /\ Len(last.related) > 0
  /\ \E tenantId \in TenantIds, moduleId \in registeredIds :
       EnabledFor(tenantId, moduleId)

\* The other registered modules that list moduleId as a non-optional dependency
\* and are enabled for the tenant.
EnabledRequiringModules(tenantId, moduleId) ==
  { other \in registeredIds \ {moduleId} :
      moduleId \in RequiredDeps(other) /\ EnabledFor(tenantId, other) }

\* C7: disableModule decides MODULE_NOT_FOUND, then ALREADY_DISABLED, then
\* DEPENDENT_EXISTS with exactly the set of enabled modules that require the
\* module, and otherwise disables the pair; a failing call leaves the
\* tenant-state table unchanged.
C7_DisableDecisionOrder ==
  [][ \A tenantId \in TenantIds : \A moduleId \in ModuleIds :
        DisableModule(tenantId, moduleId) =>
          IF moduleId \notin registeredIds
          THEN last'.code = "MODULE_NOT_FOUND" /\ UNCHANGED tenantStates
          ELSE IF ~EnabledFor(tenantId, moduleId)
            THEN last'.code = "ALREADY_DISABLED" /\ UNCHANGED tenantStates
          ELSE IF EnabledRequiringModules(tenantId, moduleId) # {}
            THEN /\ last'.code = "DEPENDENT_EXISTS"
                 /\ Range(last'.related) = EnabledRequiringModules(tenantId, moduleId)
                 /\ Len(last'.related) = Cardinality(Range(last'.related))
                 /\ UNCHANGED tenantStates
          ELSE /\ last'.code = "OK"
               /\ StateRecord(tenantId, moduleId)' # {}
               /\ ~EnabledFor(tenantId, moduleId)' ]_vars

C7_Witness ==
  /\ last.op = "disableModule" /\ last.code = "DEPENDENT_EXISTS"
  /\ Len(last.related) > 0

\* C8: for registered A and B with B requiring A: while A is not enabled,
\* enableModule(T, B) fails listing A, and with A enabled it succeeds; while B
\* is enabled, disableModule(T, A) fails listing B, and with B disabled and no
\* other enabled dependent it succeeds.
C8_EnableDisableOrdering ==
  \A tenantId \in TenantIds : \A A, B \in registeredIds :
    (A # B /\ A \in RequiredDeps(B)) =>
      /\ ~isEnabled(tenantId, A) =>
           /\ enableModuleResult(tenantId, B).code = "DEPENDENCY_MISSING"
           /\ A \in Range(enableModuleResult(tenantId, B).related)
      /\ ( /\ \A dep \in RequiredDeps(B) : isEnabled(tenantId, dep)
           /\ ~isEnabled(tenantId, B) )
           => enableModuleResult(tenantId, B).code = "OK"
      /\ isEnabled(tenantId, B) =>
           /\ disableModuleResult(tenantId, A).code = "DEPENDENT_EXISTS"
           /\ B \in Range(disableModuleResult(tenantId, A).related)
      /\ ( /\ isEnabled(tenantId, A)
           /\ \A other \in registeredIds \ {A} :
                A \in RequiredDeps(other) => ~isEnabled(tenantId, other) )
           => disableModuleResult(tenantId, A).code = "OK"

\* C9: an enableModule or disableModule call for one tenant, successful or
\* failed, changes neither isModuleEnabled nor the stored record of any module
\* for another tenant.
C9_TenantIsolation ==
  [][ \A t1 \in TenantIds : \A moduleId \in ModuleIds :
        (EnableModule(t1, moduleId) \/ DisableModule(t1, moduleId)) =>
          \A t2 \in TenantIds \ {t1} : \A M \in ModuleIds :
            /\ isEnabled(t2, M)' = isEnabled(t2, M)
            /\ StateRecord(t2, M)' = StateRecord(t2, M) ]_vars

C9_Witness ==
  /\ last.op \in {"enableModule", "disableModule"} /\ last.code = "OK"
  /\ \E t1, t2 \in TenantIds : \E M \in ModuleIds :
       /\ t1 # t2
       /\ isEnabled(t1, M)
       /\ StateRecord(t2, M) # {} /\ ~isEnabled(t2, M)

\* C10: getEnabledModules(T) is exactly the set of modules M with
\* isModuleEnabled(T, M), for tenant ids with ':' or a common prefix too.
C10_EnabledListMatchesIsEnabled ==
  \A tenantId \in TenantIds :
    getEnabledModules(tenantId) = { M \in ModuleIds : isEnabled(tenantId, M) }

\* A capability id of the form namespace:name: two non-empty segments.
WellFormedCapId(capabilityId) ==
  /\ Len(capabilityId) = 2
  /\ \A i \in DOMAIN capabilityId : capabilityId[i] # ""

\* The registered modules whose manifest declares the capability id.
Declarers(capabilityId) ==
  { modules[i] : i \in { j \in DOMAIN modules :
                           capabilityId \in capIds(modules[j].capabilities) } }

\* C11: resolveCapability(id) fails with INVALID_FORMAT for every id that is not
\* of the form namespace:name, whatever the index holds; it fails with NOT_FOUND
\* for a well-formed id that no registered module declares; otherwise it returns
\* the descriptor of id together with the registered module that declares it.
C11_ResolveOutcome ==
  /\ \A capabilityId \in LookupCapIds :
       LET r == resolve(capabilityId)
       IN  IF ~WellFormedCapId(capabilityId) THEN r.code = "INVALID_FORMAT"
           ELSE IF Declarers(capabilityId) = {} THEN r.code = "NOT_FOUND"
           ELSE /\ r.code = "OK"
                /\ r.capability.id = capabilityId
                /\ r.module \in Declarers(capabilityId)
  /\ (last.op = "resolveCapability" /\ last.code = "OK")
       => last.related[1] \in registeredIds

\* A lookup has returned an owner while another well-formed id is unbound.
C11_Witness ==
  /\ last.op = "resolveCapability"
  /\ last.code = "OK"
  /\ \E capabilityId \in CapIds : resolve(capabilityId).code = "NOT_FOUND"

\* The capability ids bound to module moduleId in the capability index.
BoundTo(moduleId) ==
  { c \in DOMAIN capabilityMap : capabilityMap[c].module.moduleId = moduleId }

\* C12: unregisterModule(M) on a registered M returns true, removes M's record and
\* every capability binding owned by M, and leaves every other module's record
\* and bindings as they were; afterwards a valid manifest with M's moduleId and
\* capability ids from M's former ones registers again.  On an unregistered M it
\* returns false and changes nothing.
C12_UnregisterFrame ==
  [][ \A M \in ModuleIds :
        UnregisterModule(M) =>
          IF hasModule(M)
          THEN /\ last'.code = "true"
               /\ ~hasModule(M)'
               /\ BoundTo(M)' = {}
               /\ \A other \in registeredIds \ {M} :
                    /\ hasModule(other)'
                    /\ getModule(other)' = getModule(other)
               /\ DOMAIN capabilityMap' = DOMAIN capabilityMap \ BoundTo(M)
               /\ \A c \in DOMAIN capabilityMap' : capabilityMap'[c] = capabilityMap[c]
               /\ \A B \in CapManifests :
                    ( /\ B.moduleId = M
                      /\ validate(B).valid
                      /\ capIds(B.capabilities) \subseteq BoundTo(M) )
                      => registerModuleCode(B)' = "OK"
          ELSE /\ last'.code = "false"
               /\ UNCHANGED asyncVars ]_vars

\* A module that owned a binding was unregistered while another module and its
\* binding stay.
C12_Witness ==
  /\ last.op = "unregisterModule"
  /\ last.code = "true"
  /\ Len(modules) = 1
  /\ DOMAIN capabilityMap # {}
  /\ \E c \in CapIds : c \notin DOMAIN capabilityMap

\* C13: registerModule accepts a valid manifest whose dependency targets are not
\* registered, and enableModule(T, M) does not succeed while some non-optional
\* dependency target of M is not a currently registered module.
C13_EnableNeedsRegisteredDependencies ==
  /\ \A B \in DepManifests :
       ( /\ validate(B).valid
         /\ ~hasModule(B.moduleId)
         /\ \A i \in DOMAIN B.dependencies : ~hasModule(B.dependencies[i].moduleId) )
         => registerModuleCode(B) = "OK"
  /\ \A T \in TenantIds, M \in registeredIds :
       ~(RequiredDeps(M) \subseteq registeredIds)
         => enableModuleResult(T, M).code # "OK"

\* The first half of C13 alone: registration does not look for the targets.
C13_RegisterAcceptsUnregisteredTargets ==
  \A B \in DepManifests :
    ( /\ validate(B).valid
      /\ ~hasModule(B.moduleId)
      /\ \A i \in DOMAIN B.dependencies : ~hasModule(B.dependencies[i].moduleId) )
      => registerModuleCode(B) = "OK"

\* C14: on a fresh registry, for a valid manifest M with no dependencies and a
\* capability c: registerModule(M) succeeds, enableModule(T, M) then returns an
\* enabled state, resolveCapability(c) then returns M as the owner,
\* disableModule(T, M) then returns a disabled state and isModuleEnabled(T, M) is
\* false afterwards.
C14_Lifecycle ==
  /\ last.op = "registerModule"
       => (last.code = "OK" /\ Len(modules) = 1 /\ validate(modules[1]).valid)
  /\ last.op = "enableModule"
       => (last.code = "OK"
           /\ \E T \in TenantIds : EnabledFor(T, modules[1].moduleId))
  /\ last.op = "resolveCapability"
       => (last.code = "OK" /\ last.related = << modules[1].moduleId >>)
  /\ last.op = "disableModule"
       => (last.code = "OK"
           /\ \A T \in TenantIds : ~EnabledFor(T, modules[1].moduleId))
  /\ last.op = "isModuleEnabled" => last.code = "false"

\* The lifecycle ran to its last step.
C14_Witness ==
  /\ last.op = "isModuleEnabled"
  /\ Len(modules) = 1
  /\ DOMAIN capabilityMap # {}

\* The targets a module of the synchronous registry declares, all of them and
\* the non-optional ones; empty for an id that is not registered.
SyncDeclared(moduleId) ==
  IF moduleId \in syncIds
  THEN { syncGet(moduleId).dependencies[i].moduleId :
           i \in DOMAIN syncGet(moduleId).dependencies }
  ELSE {}

SyncRequired(moduleId) ==
  IF moduleId \in syncIds
  THEN { syncGet(moduleId).dependencies[i].moduleId :
           i \in { j \in DOMAIN syncGet(moduleId).dependencies :
                     ~syncGet(moduleId).dependencies[j].optional } }
  ELSE {}

RECURSIVE SyncReach(_)
\* The least set that holds S and the non-optional targets of its members.
SyncReach(S) ==
  LET next == S \cup UNION { SyncRequired(m) : m \in S }
  IN  IF next = S THEN S ELSE SyncReach(next)

NoRepeats(list) == Cardinality(Range(list)) = Len(list)

\* C15: in the synchronous registry, getDependencyOrder(M) of a registered M lists
\* every module of M's transitive non-optional dependency closure exactly once,
\* every module after all its non-optional dependencies and M last; for an
\* unregistered M it is the empty list.
C15_DependencyOrder ==
  \A M \in SyncModuleIds :
    LET order == getDependencyOrder(M)
    IN  IF M \notin syncIds THEN order = << >>
        ELSE /\ Range(order) = SyncReach({M})
             /\ NoRepeats(order)
             /\ order[Len(order)] = M
             /\ \A i \in DOMAIN order :
                  \A d \in SyncRequired(order[i]) :
                    \E j \in 1..(i - 1) : order[j] = d

\* An order of three modules was returned for a module with two non-optional
\* dependencies, one of which depends on the other.
C15_Witness ==
  /\ last.op = "getDependencyOrder"
  /\ Len(last.related) = 3
  /\ Cardinality(SyncRequired(last.related[3])) = 2
  /\ SyncRequired(last.related[2]) = {last.related[1]}

\* C16: in the synchronous registry, getDependents(M) lists exactly the registered
\* modules other than M that declare M as a dependency themselves, each once; a
\* module that reaches M only through other modules is not listed.
C16_Dependents ==
  \A M \in SyncModuleIds :
    /\ NoRepeats(getDependents(M))
    /\ Range(getDependents(M)) = { id \in syncIds \ {M} : M \in SyncDeclared(id) }

\* A list of dependents was returned while a registered module that reaches the
\* queried module only through another one is not in it.
C16_Witness ==
  /\ last.op = "getDependents"
  /\ \E M \in syncIds :
       /\ last.related = getDependents(M)
       /\ last.related # << >>
       /\ \E X \in syncIds \ (Range(last.related) \cup {M}) : M \in SyncReach({X})

ReadOps ==
  { "isModuleEnabled", "getEnabledModules", "getModuleState", "listModules",
    "getModule", "hasCapability", "resolveCapability" }

\* C17: isModuleEnabled, getEnabledModules, getModuleState, listModules, getModule,
\* hasCapability and resolveCapability leave the module store, the capability
\* index and the tenant-state table as they were; none of them creates a
\* tenant-state record.
C17_ReadsChangeNothing ==
  [][ last'.op \in ReadOps
        => /\ modules' = modules
           /\ capabilityMap' = capabilityMap
           /\ moduleCapabilities' = moduleCapabilities
           /\ tenantStates' = tenantStates ]_vars

\* The state of a pair without a record was read on a registry that holds a
\* module, and the table is still empty.
C17_Witness ==
  /\ last.op = "getModuleState"
  /\ last.code = "null"
  /\ Len(modules) > 0
  /\ DOMAIN tenantStates = {}

\* The keys of the tenant-state table whose record differs between the two
\* states of a step.
ChangedStateKeys ==
  { k \in DOMAIN tenantStates \cup DOMAIN tenantStates' :
      \/ k \notin DOMAIN tenantStates
      \/ k \notin DOMAIN tenantStates'
      \/ tenantStates'[k] # tenantStates[k] }

\* C18: enableModule and disableModule, whether they succeed or fail, leave the
\* module store and the capability index as they were; a successful call changes
\* the state of exactly one (tenant, module) pair.
C18_TenantOpsFrame ==
  [][ last'.op \in {"enableModule", "disableModule"}
        => /\ modules' = modules
           /\ capabilityMap' = capabilityMap
           /\ moduleCapabilities' = moduleCapabilities
           /\ last'.code = "OK"
                => /\ Cardinality(ChangedStateKeys) = 1
                   /\ Cardinality({ pair \in TenantIds \X ModuleIds :
                          StateRecord(pair[1], pair[2])' # StateRecord(pair[1], pair[2]) })
                        = 1 ]_vars

\* A call succeeded for one pair while the table holds records of other pairs.
C18_Witness ==
  /\ last.op = "disableModule"
  /\ last.code = "OK"
  /\ Cardinality(DOMAIN tenantStates) >= 3
  /\ \E T \in TenantIds, M \in ModuleIds : EnabledFor(T, M)

\* The structural rules a candidate violates, by the path of the field: the
\* moduleId and dependency-target pattern, the closed class set and the
\* capability-id pattern.
StructuralViolations(c) ==
  { path \in {"/moduleId", "/class", "/capabilities", "/dependencies"} :
      \/ path = "/moduleId"
           /\ ~(Len(c.moduleId) >= 3 /\ c.moduleId[1] = "webwaka"
                 /\ c.moduleId[2] \in ModuleClasses /\ c.moduleId[3] # "")
      \/ path = "/class" /\ c.class \notin ModuleClasses
      \/ path = "/capabilities"
           /\ \E i \in DOMAIN c.capabilities : ~WellFormedCapId(c.capabilities[i].id)
      \/ path = "/dependencies"
           /\ \E i \in DOMAIN c.dependencies :
                ~(Len(c.dependencies[i].moduleId) >= 3
                  /\ c.dependencies[i].moduleId[1] = "webwaka"
                  /\ c.dependencies[i].moduleId[2] \in ModuleClasses
                  /\ c.dependencies[i].moduleId[3] # "") }

\* The business rules a candidate violates, by the code of the error.
BusinessViolations(c) ==
  { code \in {"CLASS_PREFIX_MISMATCH", "DUPLICATE_CAPABILITY", "SELF_DEPENDENCY",
               "DUPLICATE_DEPENDENCY"} :
      \/ code = "CLASS_PREFIX_MISMATCH"
           /\ ~(Len(c.moduleId) >= 3 /\ c.moduleId[2] = c.class)
      \/ code = "DUPLICATE_CAPABILITY"
           /\ \E i, j \in DOMAIN c.capabilities :
                i # j /\ c.capabilities[i].id = c.capabilities[j].id
      \/ code = "SELF_DEPENDENCY"
           /\ \E i \in DOMAIN c.dependencies : c.dependencies[i].moduleId = c.moduleId
      \/ code = "DUPLICATE_DEPENDENCY"
           /\ \E i, j \in DOMAIN c.dependencies :
                i # j /\ c.dependencies[i].moduleId = c.dependencies[j].moduleId }

ErrorCodes(errors) == { errors[i].code : i \in DOMAIN errors }

ErrorPaths(errors) == { errors[i].path : i \in DOMAIN errors }

SyncStateRecord(tenantId, moduleId) ==
  { tenantModules(tenantId)[i] :
      i \in { j \in DOMAIN tenantModules(tenantId) :
                tenantModules(tenantId)[j].moduleId = moduleId } }

\* C21 as stated: enableModule on an already-enabled pair succeeds and leaves the
\* stored state, enabledAt included, as it was; disableModule on an absent or
\* already-disabled pair succeeds and creates or changes no record.
C21_Original ==
  [][ \A T \in SyncTenantIds, M \in ModuleIds, now \in SyncTimes :
        /\ (SyncStateRecord(T, M) # {} /\ syncStateEnabled(T, M)
             /\ SyncEnableModule(T, M, now))
             => (last'.success /\ syncTenantStates' = syncTenantStates)
        /\ (~syncStateEnabled(T, M) /\ SyncDisableModule(T, M, now))
             => (last'.success /\ syncTenantStates' = syncTenantStates) ]_vars

\* C21 amended: the same, with disableModule taken on a registered module.
C21_IdempotentTenantCalls ==
  [][ \A T \in SyncTenantIds, M \in ModuleIds, now \in SyncTimes :
        /\ (syncStateEnabled(T, M) /\ SyncEnableModule(T, M, now))
             => (last'.success /\ syncTenantStates' = syncTenantStates)
        /\ (M \in syncIds /\ ~syncStateEnabled(T, M) /\ SyncDisableModule(T, M, now))
             => (last'.success /\ syncTenantStates' = syncTenantStates) ]_vars

\* enableModule was repeated on a pair that was enabled at another time.
C21_Witness ==
  /\ last.op = "syncEnableModule"
  /\ last.code = "ALREADY_ENABLED"
  /\ \E T \in SyncTenantIds, M \in ModuleIds :
       \E st \in SyncStateRecord(T, M) : st.enabled /\ st.enabledAt = <<"t1">>
  /\ \E T \in SyncTenantIds, M \in ModuleIds :
       \E st \in SyncStateRecord(T, M) : ~st.enabled

\* The non-optional dependencies of a manifest that are not registered in the
\* synchronous registry.
SyncUnregisteredRequired(manifest) ==
  { manifest.dependencies[i].moduleId :
      i \in { j \in DOMAIN manifest.dependencies :
                /\ ~manifest.dependencies[j].optional
                /\ manifest.dependencies[j].moduleId \notin syncIds } }

SerialCall(ts, c) ==
  LET on(m) == /\ getTenantStateKey(c.tenantId, m) \in DOMAIN ts
               /\ ts[getTenantStateKey(c.tenantId, m)].enabled
      written == [k \in DOMAIN ts \cup {getTenantStateKey(c.tenantId, c.moduleId)} |->
                    IF k = getTenantStateKey(c.tenantId, c.moduleId)
                    THEN [tenantId |-> c.tenantId, moduleId |-> c.moduleId,
                          enabled |-> (c.op = "enableModule")]
                    ELSE ts[k]]
      missing == SelectSeq(getModule(c.moduleId).dependencies,
                           LAMBDA dep : ~dep.optional /\ ~on(dep.moduleId))
      dependents == SelectSeq(modules,
                      LAMBDA otherModule :
                        /\ otherModule.moduleId # c.moduleId
                        /\ dependsOnTarget(otherModule, c.moduleId)
                        /\ on(otherModule.moduleId))
      fail(code, related) == [code |-> code, related |-> related, table |-> ts]
  IN  IF ~hasModule(c.moduleId) THEN fail("MODULE_NOT_FOUND", << >>)
      ELSE IF c.op = "enableModule"
        THEN IF on(c.moduleId) THEN fail("ALREADY_ENABLED", << >>)
             ELSE IF Len(missing) > 0
               THEN fail("DEPENDENCY_MISSING",
                         [i \in 1..Len(missing) |-> missing[i].moduleId])
               ELSE [code |-> "OK", related |-> << >>, table |-> written]
        ELSE IF ~on(c.moduleId) THEN fail("ALREADY_DISABLED", << >>)
             ELSE IF Len(dependents) > 0
               THEN fail("DEPENDENT_EXISTS",
                         [i \in 1..Len(dependents) |-> dependents[i].moduleId])
               ELSE [code |-> "OK", related |-> << >>, table |-> written]

\* The calls in flight, in the order k1, k2, run one after the other from
\* calls.base give the results and the tenant states that are observed.
SerialOrderExplains(k1, k2) ==
  LET first  == SerialCall(calls.base, calls.procs[k1])
      second == SerialCall(first.table, calls.procs[k2])
  IN  /\ calls.procs[k1].code = first.code
      /\ calls.procs[k1].related = first.related
      /\ calls.procs[k2].code = second.code
      /\ calls.procs[k2].related = second.related
      /\ tenantStates = second.table

BaseEnabled(tenantId, moduleId) ==
  /\ getTenantStateKey(tenantId, moduleId) \in DOMAIN calls.base
  /\ calls.base[getTenantStateKey(tenantId, moduleId)].enabled

\* C23: enableModule(T, M) and disableModule(T, M) issued together and
\* interleaved at their awaits do not both complete successfully.
C23_EnableDisableRaceExcludes ==
  ( /\ inFlight
    /\ allSettled
    /\ calls.procs[1].op # calls.procs[2].op
    /\ calls.procs[1].tenantId = calls.procs[2].tenantId
    /\ calls.procs[1].moduleId = calls.procs[2].moduleId )
    => ~(calls.procs[1].code = "OK" /\ calls.procs[2].code = "OK")

\* C24: calls issued together on one tenant give the results and the final
\* tenant state of one of their serial orders; enableModule(T, B) and
\* disableModule(T, A), B requiring A, never both succeed from a state where A
\* is enabled and B is not.
C24_CallsSerializable ==
  ( /\ inFlight
    /\ allSettled
    /\ calls.procs[1].tenantId = calls.procs[2].tenantId )
    => /\ SerialOrderExplains(1, 2) \/ SerialOrderExplains(2, 1)
       /\ \A k \in 1..2 :
            ( /\ calls.procs[k].op = "enableModule"
              /\ calls.procs[3 - k].op = "disableModule"
              /\ hasModule(calls.procs[k].moduleId)
              /\ dependsOnTarget(getModule(calls.procs[k].moduleId),
                               calls.procs[3 - k].moduleId)
              /\ BaseEnabled(calls.procs[k].tenantId, calls.procs[3 - k].moduleId)
              /\ ~BaseEnabled(calls.procs[k].tenantId, calls.procs[k].moduleId) )
              => ~(calls.procs[1].code = "OK" /\ calls.procs[2].code = "OK")

\* The records of one tenant in the tenant-state table ts.
TenantView(ts, tenantId) ==
  { ts[k] : k \in { key \in DOMAIN ts : ts[key].tenantId = tenantId } }

\* C25: when a call of one tenant and a call of another tenant interleave at
\* their awaits, each call's result and each tenant's final state are those of
\* that call run alone from the state at which the calls were issued.
C25_TenantsIndependent ==
  ( /\ inFlight
    /\ allSettled
    /\ calls.procs[1].tenantId # calls.procs[2].tenantId )
    => \A k \in 1..2 :
         LET alone == SerialCall(calls.base, calls.procs[k])
         IN  /\ calls.procs[k].code = alone.code
             /\ calls.procs[k].related = alone.related
             /\ TenantView(tenantStates, calls.procs[k].tenantId)
                  = TenantView(alone.table, calls.procs[k].tenantId)

\* One call of each tenant, issued together on the same module, has succeeded:
\* an enable for one tenant and a disable for the other.
C25_Witness ==
  /\ inFlight
  /\ allSettled
  /\ calls.procs[1].tenantId # calls.procs[2].tenantId
  /\ calls.procs[1].code = "OK"
  /\ calls.procs[2].code = "OK"
  /\ calls.procs[1].moduleId = calls.procs[2].moduleId
  /\ calls.procs[1].op # calls.procs[2].op

\* C26: in the async registry a capability id is bound in the index exactly
\* when a registered module declares it, and it is bound to that module; no
\* binding names a module that is not in the store; a successful registerModule
\* adds the module record and all of its bindings in the one step.
C26_IndexMatchesStore ==
  /\ [](\A capabilityId \in CapIds \cup DOMAIN capabilityMap :
          /\ hasCapability(capabilityId) <=> Declarers(capabilityId) # {}
          /\ hasCapability(capabilityId)
               => /\ capabilityMap[capabilityId].module \in Declarers(capabilityId)
                  /\ capabilityMap[capabilityId].module.moduleId \in registeredIds)
  /\ [][ (last'.op = "registerModule" /\ last'.code = "OK")
           => /\ Len(modules') = Len(modules) + 1
              /\ SubSeq(modules', 1, Len(modules)) = modules
              /\ LET module == modules'[Len(modules')]
                 IN  /\ module.moduleId \notin registeredIds
                     /\ DOMAIN capabilityMap' =
                          DOMAIN capabilityMap \cup capIds(module.capabilities)
                     /\ \A c \in capIds(module.capabilities) :
                          capabilityMap'[c].module = module
                     /\ \A c \in DOMAIN capabilityMap :
                          capabilityMap'[c] = capabilityMap[c] ]_vars

\* A module with two capabilities has just been registered and both are
\* bound to it.
C26_Witness ==
  /\ last.op = "registerModule"
  /\ last.code = "OK"
  /\ Len(modules) = 1
  /\ Len(modules[1].capabilities) = 2
  /\ BoundTo(modules[1].moduleId) = CapIds

\* The manifest lists its own moduleId among its dependencies.
SelfDependent(manifest) ==
  \E i \in DOMAIN manifest.dependencies :
     manifest.dependencies[i].moduleId = manifest.moduleId

StoredTargets(module) ==
  { module.dependencies[i].moduleId : i \in DOMAIN module.dependencies }
    \cap registeredIds

RECURSIVE WalkReach(_)
\* The stored modules reached from the set S along such edges, S included.
WalkReach(S) ==
  LET next == S \cup UNION { StoredTargets(getModule(m)) : m \in S }
  IN  IF next = S THEN S ELSE WalkReach(next)

\* Some path from the candidate through stored modules comes back to an id it
\* has already passed.
WalkRevisits(manifest) ==
  \E m \in WalkReach(StoredTargets(manifest)) :
     m \in WalkReach(StoredTargets(getModule(m)))

\* The module whose dependencies give the edge leaving position i of a path
\* that starts at the candidate.
PathModule(manifest, path, i) ==
  IF i = 1 THEN manifest ELSE getModule(path[i])

\* C28: registerModule fails with CIRCULAR_DEPENDENCY exactly when its walk from
\* the candidate through registered modules revisits an id of the current path;
\* the reported path starts at the candidate, each consecutive pair is a
\* declared dependency edge, its last id occurs earlier in the path; a candidate
\* that reaches one registered module along two paths without a revisit is
\* registered.
C28_CircularExactlyOnRevisit ==
  \A manifest \in CycleManifests :
     LET code   == registerModuleCode(manifest)
         result == checkCircularDependencies(manifest, {}, << >>)
         walked == validate(manifest).valid /\ ~hasModule(manifest.moduleId)
     IN  /\ (code = "CIRCULAR_DEPENDENCY") <=> (walked /\ WalkRevisits(manifest))
         /\ (code = "CIRCULAR_DEPENDENCY")
              => /\ result.hasCircular
                 /\ Len(result.path) >= 2
                 /\ result.path[1] = manifest.moduleId
                 /\ \A i \in 1..(Len(result.path) - 1) :
                      result.path[i + 1]
                        \in StoredTargets(PathModule(manifest, result.path, i))
                 /\ \E j \in 1..(Len(result.path) - 1) :
                      result.path[j] = result.path[Len(result.path)]
                 /\ NoRepeats(SubSeq(result.path, 1, Len(result.path) - 1))
         /\ ( /\ walked
              /\ ~WalkRevisits(manifest)
              /\ \E t1, t2 \in StoredTargets(manifest) :
                   t1 # t2 /\ t2 \in WalkReach(StoredTargets(getModule(t1))) )
              => code = "OK"

\* A registration has just failed on a cycle between the two stored modules.
C28_Witness ==
  /\ last.op = "registerModule"
  /\ last.code = "CIRCULAR_DEPENDENCY"
  /\ Len(modules) = 2
  /\ WalkRevisits(modules[1])

\* The third module has just been registered with dependencies on both stored
\* modules, one of which depends on the other.
C28_DiamondRegistered ==
  /\ last.op = "registerModule"
  /\ last.code = "OK"
  /\ Len(modules) = 3
  /\ \E t1, t2 \in StoredTargets(modules[3]) :
       t1 # t2 /\ t2 \in StoredTargets(getModule(t1))
  /\ ~WalkRevisits(modules[3])

\* The stored modules a manifest or a stored module requires: the targets of
\* its non-optional dependencies.
StoredRequired(module) ==
  { module.dependencies[i].moduleId :
      i \in { j \in DOMAIN module.dependencies : ~module.dependencies[j].optional } }
    \cap registeredIds

RECURSIVE RequiredReach(_)
\* The stored modules reached from the set S along non-optional edges.
RequiredReach(S) ==
  LET next == S \cup UNION { StoredRequired(getModule(m)) : m \in S }
  IN  IF next = S THEN S ELSE RequiredReach(next)

\* Some path of non-optional edges from the candidate through stored modules
\* comes back to an id it has already passed.
RequiredWalkRevisits(manifest) ==
  \E m \in RequiredReach(StoredRequired(manifest)) :
     m \in RequiredReach(StoredRequired(getModule(m)))

\* C29: the cycle check of registerModule follows non-optional edges only: a
\* registration fails with CIRCULAR_DEPENDENCY only when the non-optional edges
\* alone lead the walk back to an id of its path.
C29_OptionalEdgesIgnored ==
  \A manifest \in CycleManifests :
     registerModuleCode(manifest) = "CIRCULAR_DEPENDENCY"
       => RequiredWalkRevisits(manifest)

\* The tenant-state table with the pair (tenantId, moduleId) recorded as
\* disabled.
WithDisabledRecord(tenantId, moduleId) ==
  [k \in DOMAIN tenantStates \cup {getTenantStateKey(tenantId, moduleId)} |->
     IF k = getTenantStateKey(tenantId, moduleId)
     THEN [tenantId |-> tenantId, moduleId |-> moduleId, enabled |-> FALSE]
     ELSE tenantStates[k]]

\* A pair without a record answers every call as a disabled pair does.
AbsentActsDisabled(tenantId, moduleId) ==
  LET fromDisabled == SerialCall(WithDisabledRecord(tenantId, moduleId),
                                 [op |-> "enableModule", tenantId |-> tenantId,
                                  moduleId |-> moduleId])
  IN  /\ ~isEnabled(tenantId, moduleId)
      /\ hasModule(moduleId)
           => disableModuleResult(tenantId, moduleId).code = "ALREADY_DISABLED"
      /\ enableModuleResult(tenantId, moduleId).code = fromDisabled.code
      /\ enableModuleResult(tenantId, moduleId).related = fromDisabled.related

\* A record appears only in a successful enableModule of its pair, every
\* successful enableModule leaves one, and no step removes one.
RecordsFollowEnables ==
  [][ /\ \A T \in TenantIds, M \in ModuleIds :
           /\ hasTenantState(T, M) => hasTenantState(T, M)'
           /\ (~hasTenantState(T, M) /\ hasTenantState(T, M)')
                => /\ last'.op = "enableModule"
                   /\ last'.code = "OK"
                   /\ EnableModule(T, M)
           /\ (EnableModule(T, M) /\ last'.code = "OK") => hasTenantState(T, M)'
      /\ DOMAIN tenantStates' \subseteq
           { getTenantStateKey(T, M) : T \in TenantIds, M \in ModuleIds } ]_vars

\* C30: a tenant-state record of (T, M) exists exactly when enableModule(T, M)
\* has succeeded; failed enables, failed disables and reads create none; a pair
\* without a record is not enabled, is left out of getEnabledModules, is refused
\* by disableModule with ALREADY_DISABLED and is enabled as a disabled pair is.
C30_RecordIffEnabledOnce ==
  /\ RecordsFollowEnables
  /\ [](\A T \in TenantIds, M \in ModuleIds :
          ~hasTenantState(T, M)
            => /\ AbsentActsDisabled(T, M)
               /\ M \notin getEnabledModules(T))

\* C30 without the list of getEnabledModules.
C30_AbsentPairActsDisabled ==
  /\ RecordsFollowEnables
  /\ [](\A T \in TenantIds, M \in ModuleIds :
          ~hasTenantState(T, M) => AbsentActsDisabled(T, M))

\* The targets a registered module lists as optional dependencies.
OptionalDeps(moduleId) ==
  { getModule(moduleId).dependencies[i].moduleId :
      i \in { j \in DOMAIN getModule(moduleId).dependencies :
                getModule(moduleId).dependencies[j].optional } }

\* C31: an optional dependency never gates a tenant call: enableModule(T, M) of
\* a registered module that is not enabled succeeds as soon as its non-optional
\* dependencies are enabled, whatever the state of its optional ones, and
\* disableModule(T, A) of an enabled module succeeds as soon as no enabled
\* module requires A, whatever modules list A as optional.
C31_OptionalNeverGates ==
  \A T \in TenantIds, M \in registeredIds :
     /\ ( /\ ~EnabledFor(T, M)
          /\ \A d \in RequiredDeps(M) : EnabledFor(T, d) )
          => enableModuleResult(T, M).code = "OK"
     /\ ( /\ EnabledFor(T, M)
          /\ EnabledRequiringModules(T, M) = {} )
          => disableModuleResult(T, M).code = "OK"

\* disableModule has just succeeded for a module that an enabled module of the
\* same tenant lists as an optional dependency: its record is the only
\* disabled one of the table.
C31_Witness ==
  /\ last.op = "disableModule"
  /\ last.code = "OK"
  /\ \E T \in TenantIds, A \in registeredIds, B \in registeredIds :
       /\ A \in OptionalDeps(B)
       /\ EnabledFor(T, B)
       /\ StateRecord(T, A) # {}
       /\ ~EnabledFor(T, A)
       /\ \A k \in DOMAIN tenantStates :
            ~tenantStates[k].enabled => k = getTenantStateKey(T, A)

\* The moduleId has the form webwaka-<class>-<name> and its class segment is
\* not the declared class.
ClassSegmentDiffers(c) ==
  /\ Len(c.moduleId) >= 3
  /\ c.moduleId[1] = "webwaka"
  /\ c.moduleId[2] \in ModuleClasses
  /\ c.moduleId[3] # ""
  /\ c.moduleId[2] # c.class

\* The errors either validator gives for a malformed moduleId name another code
\* than the class mismatch.
MalformedIdCodedApart(c, errors, mismatchCode) ==
  StructuralViolations(c) \cap {"/moduleId"} # {}
    => /\ mismatchCode \notin ErrorCodes(errors)
       /\ \E i \in DOMAIN errors : errors[i].path = "/moduleId"

FirstFailure(manifest) ==
  IF StructuralViolations(manifest) # {} \/ BusinessViolations(manifest) # {}
  THEN "VALIDATION_FAILED"
  ELSE IF manifest.moduleId \in registeredIds THEN "ALREADY_REGISTERED"
  ELSE IF \E c \in capIds(manifest.capabilities) : Declarers(c) # {}
    THEN "CAPABILITY_CONFLICT"
  ELSE IF WalkRevisits(manifest) THEN "CIRCULAR_DEPENDENCY"
  ELSE "OK"

\* C33: registerModule reports one failure, the first that applies in the order
\* VALIDATION_FAILED, ALREADY_REGISTERED, CAPABILITY_CONFLICT,
\* CIRCULAR_DEPENDENCY; the manifest of a registered module is refused with
\* ALREADY_REGISTERED although its capability ids are bound; a refused
\* registration changes nothing.
C33_FailureOrder ==
  /\ [](\A manifest \in OrderManifests :
          registerModuleCode(manifest) = FirstFailure(manifest))
  /\ [](\A i \in DOMAIN modules :
          registerModuleCode(modules[i]) = "ALREADY_REGISTERED")
  /\ [][ (last'.op = "registerModule" /\ last'.code # "OK")
           => UNCHANGED asyncVars ]_vars

\* The manifest of the only stored module, which holds the capability, has
\* just been refused as already registered.
C33_Witness ==
  /\ last.op = "registerModule"
  /\ last.code = "ALREADY_REGISTERED"
  /\ Len(modules) = 1
  /\ modules[1].capabilities # << >>
  /\ hasCapability(<<"ns", "c1">>)

\* C34: in every reachable state of the async registry, unregistrations
\* included, a module that isModuleEnabled reports enabled for a tenant, or that
\* getEnabledModules lists for it, is a registered module.
C34_EnabledImpliesRegistered ==
  \A T \in TenantIds :
     /\ \A M \in ModuleIds : isEnabled(T, M) => hasModule(M)
     /\ getEnabledModules(T) \subseteq registeredIds

\* C35: disabling is never blocked for a whole tenant: in every reachable state
\* in which some module is enabled for T, disableModule(T, m) succeeds for some
\* enabled m.
C35_SomeDisableSucceeds ==
  \A T \in TenantIds :
     (\E M \in ModuleIds : isEnabled(T, M))
       => \E m \in ModuleIds :
             /\ isEnabled(T, m)
             /\ disableModuleResult(T, m).code = "OK"

\* The registered module moduleId together with everything it reaches through
\* non-optional dependencies, registered or not.
RECURSIVE RequiredClosure(_, _)
RequiredClosure(S, n) ==
  IF n = 0 THEN S
  ELSE RequiredClosure(
         S \cup UNION { RequiredDeps(x) : x \in S \cap registeredIds },
         n - 1)

\* The tenant-state tables that some finite sequence of enableModule calls of
\* one tenant leads to from the tables in S; a refused call leaves its table.
RECURSIVE EnableReach(_, _)
EnableReach(S, tenantId) ==
  LET step == S \cup { SerialCall(ts, [op |-> "enableModule",
                                       tenantId |-> tenantId,
                                       moduleId |-> m]).table :
                         ts \in S, m \in registeredIds }
  IN  IF step = S THEN S ELSE EnableReach(step, tenantId)

\* C36: for every registered module M whose transitive non-optional
\* dependencies are all registered, and any tenant T, some finite sequence of
\* enableModule calls for T ends with M enabled for T.
C36_EnableAlwaysReachable ==
  \A T \in TenantIds : \A M \in registeredIds :
     RequiredClosure({M}, Cardinality(ModuleIds)) \subseteq registeredIds
       => \E ts \in EnableReach({tenantStates}, T) :
             /\ getTenantStateKey(T, M) \in DOMAIN ts
             /\ ts[getTenantStateKey(T, M)].enabled

\* The modules enabled in the Map of tenantId in the synchronous registry.
SyncEnabledSet(tenantId) ==
  { tenantModules(tenantId)[i].moduleId :
      i \in { j \in DOMAIN tenantModules(tenantId) :
                tenantModules(tenantId)[j].enabled } }

\* The first k entries of a dependency order.
OrderPrefix(order, k) == { order[i] : i \in 1..k }

\* At each point of the walk along getDependencyOrder(M), the tenant having
\* exactly the first k entries enabled, the next enableModule call enables its
\* module and the disableModule call of the k-th entry disables it.
WalkStepsSucceed(T, M) ==
  LET order == getDependencyOrder(M)
  IN  /\ Len(order) >= 1
      /\ order[Len(order)] = M
      /\ NoRepeats(order)
      /\ \A k \in 0..Len(order) :
           SyncEnabledSet(T) = OrderPrefix(order, k) =>
             /\ k < Len(order) =>
                  syncEnableModuleResult(T, order[k + 1]) =
                    [success |-> TRUE, code |-> "ENABLED", related |-> << >>]
             /\ k > 0 =>
                  syncDisableModuleResult(T, order[k]) =
                    [success |-> TRUE, code |-> "DISABLED", related |-> << >>]

\* C37: in the synchronous registry, for a registered module M and a tenant T
\* with nothing enabled, the enableModule calls along getDependencyOrder(M)
\* succeed one after the other and end with M enabled, and the disableModule
\* calls in the reverse order then succeed one after the other: every state in
\* which T has exactly a prefix of the order enabled lets the walk take its next
\* step in either direction, and an enabling or disabling call changes the
\* enabled modules of T by exactly its own module.
C37_OrderEnablesThenDisables ==
  /\ [](\A T \in SyncTenantIds : \A M \in syncIds : WalkStepsSucceed(T, M))
  /\ [][ \A T \in SyncTenantIds : \A m \in ModuleIds : \A now \in SyncTimes :
           /\ (SyncEnableModule(T, m, now) /\ last'.code = "ENABLED")
                => /\ m \notin SyncEnabledSet(T)
                   /\ SyncEnabledSet(T)' = SyncEnabledSet(T) \cup {m}
           /\ (SyncDisableModule(T, m, now) /\ last'.code = "DISABLED")
                => /\ m \in SyncEnabledSet(T)
                   /\ SyncEnabledSet(T)' = SyncEnabledSet(T) \ {m} ]_vars

\* A module with a dependency order of two entries has just been disabled
\* again after both were enabled: its dependency is the only enabled module.
C37_Witness ==
  /\ last.op = "syncDisableModule"
  /\ last.code = "DISABLED"
  /\ \E T \in SyncTenantIds : \E M \in syncIds :
       /\ Len(getDependencyOrder(M)) = 2
       /\ SyncEnabledSet(T) = { getDependencyOrder(M)[1] }
       /\ \E st \in SyncStateRecord(T, M) : ~st.enabled

\* C38: in every reachable state of the synchronous registry, a module enabled
\* for a tenant is registered and has every non-optional dependency of its
\* registered manifest enabled for that tenant.
C38_SyncEnabledHaveDependencies ==
  \A T \in SyncTenantIds : \A M \in SyncEnabledSet(T) :
     /\ M \in syncIds
     /\ \A i \in DOMAIN syncGet(M).dependencies :
          ~syncGet(M).dependencies[i].optional
            => syncStateEnabled(T, syncGet(M).dependencies[i].moduleId)

\* A module and its non-optional dependency are both enabled, and the
\* disableModule call of the dependency has just been refused for it.
C38_Witness ==
  /\ last.op = "syncDisableModule"
  /\ last.code = "DEPENDENTS_ENABLED"
  /\ \E T \in SyncTenantIds : \E M \in SyncEnabledSet(T) :
       /\ last.related = << M >>
       /\ \E i \in DOMAIN syncGet(M).dependencies :
            /\ ~syncGet(M).dependencies[i].optional
            /\ syncGet(M).dependencies[i].moduleId \in SyncEnabledSet(T)

\* The two manifests have the same moduleId or share a capability id.
RegistrationsCollide(m1, m2) ==
  \/ m1.moduleId = m2.moduleId
  \/ capIds(m1.capabilities) \cap capIds(m2.capabilities) # {}

\* Every bound capability id is bound to a registered module that declares it.
BindingsDeclared ==
  \A c \in DOMAIN capabilityMap :
     /\ hasModule(capabilityMap[c].module.moduleId)
     /\ c \in capIds(getModule(capabilityMap[c].module.moduleId).capabilities)

\* C39: when two concurrently issued registerModule calls whose manifests have
\* the same moduleId or share a capability id have both settled, at most one of
\* them has resolved successfully and every bound capability id is bound to a
\* registered module that declares it.
C39_AtMostOneRegistrationWins ==
  ( /\ inFlight
    /\ allSettled
    /\ RegistrationsCollide(calls.procs[1].manifest, calls.procs[2].manifest) )
    => /\ ~(calls.procs[1].code = "OK" /\ calls.procs[2].code = "OK")
       /\ BindingsDeclared

====
